---- MODULE Spec2Model ----
(***************************************************************************)
(* A model of the total-compensation calculator: the projection engine of  *)
(* services/compensationCalculator.ts, the historical price lookup, the    *)
(* exchange rate service and the recalculation effect of App.tsx.          *)
(*                                                                         *)
(* Numbers.  The code computes in floating point; the model computes the   *)
(* same expressions exactly, over integers, by holding every quantity in a *)
(* fixed unit:                                                             *)
(*   - shares in units of 1/400 share (ShareScale): a tranche of           *)
(*     totalShares * (pct / 4) / 100 shares is the integer totalShares*pct;*)
(*   - vested percentages in units of 1/4 percent (4 * percent);           *)
(*   - values (shares * price) in units of 1/400 currency unit.            *)
(***************************************************************************)
EXTENDS Integers, Sequences, FiniteSets, TLC

VARIABLES
    rsuGrants,        \* compensationData.rsuGrants: a sequence of grants
    vestingSchedule,  \* compensationData.vestingSchedule: the vesting calendar
    stockPrice,       \* compensationData.stockPrice: the current stock price
    now,              \* the clock, new Date(): [year, month]
    stockData,        \* the data file public/data/<symbol>.json as served
    salaryConfigs,    \* compensationData.salaryConfigs: a sequence of [amount, year]
    bonusConfigs,     \* compensationData.bonusConfigs: [percentage, year, performanceMultiplier]
    baseSalary,       \* compensationData.baseSalary, the legacy field
    baseCurrency,     \* compensationData.baseCurrency
    rsuCurrency,      \* compensationData.rsuCurrency
    vestedValues,     \* RSUManager: the result of calculateVestedValue
    remainingValues,  \* RSUManager: the result of calculateRemainingValue
    projection,       \* the last YearlyProjection computed by calculateYearlyProjection
    calc,             \* a call of calculateProjections: where it is, and its locals
    rates,            \* ExchangeRateService: its cache, local storage, and the rate API
    dataFiles,        \* the data files public/data/<symbol>.json as served, by symbol
    cache,            \* StockPriceService.cache: the symbols whose file is cached
    lookup,           \* the last call of getHistoricalPrice and what it returned
    builds,           \* App: the runs of the recalculation effect, oldest first
    projections,      \* App state: projections
    loading,          \* App state: loading
    exchangeRate,     \* App state: exchangeRate
    lastUpdated,      \* App state: lastUpdated
    written,          \* history: which build wrote App state, and the latest build then
    asOfValue,        \* a call of calculateVestedValue with an as-of (year, month), and its result
    quarterlyVests,   \* a call of calculateQuarterlyVestsForYear, and its result
    isReadOnlyMode,   \* App state: isReadOnlyMode
    shownData,        \* App state: compensationData, as [source, salary]
    savedData,        \* local storage: the entry 'compensation-data', <<>> when absent
    shareUrl,         \* App state: shareUrl, the data it encodes, <<>> when none
    session,          \* history: how the page was opened, and the entry stored then
    company,          \* compensationData.company
    dataUpdate,       \* history: the last call of updateCompensationData: [prev, updates]
    configEdits,      \* history: the last list handed to onChange, and the configs added
    tcCalculatorData, \* local storage: the entry 'tcCalculatorData', <<>> when absent
    userDoc,          \* Firestore: the document userData/<uid>, <<>> when absent
    merge,            \* a call of mergeDataOnSignIn: where it is, and its locals
    breakdown,        \* ProjectionTable: the tranches getRSUVestingBreakdown lists for a year
    laterValue,       \* a second call of calculateVestedValue, as of a later (year, month)
    rateCall,         \* a call of ExchangeRateService.getExchangeRate, and its result
    load              \* the last call of loadStockData, and what it did

inputVars == <<rsuGrants, vestingSchedule, stockPrice, now, stockData>>
payVars == <<salaryConfigs, bonusConfigs, baseSalary, baseCurrency, rsuCurrency>>
vestVars == <<vestedValues, remainingValues>>
projVars == <<calc, rates>>
priceVars == <<dataFiles, cache, lookup>>
appVars == <<builds, projections, loading, exchangeRate, lastUpdated, written>>
grantVars == <<asOfValue, quarterlyVests>>
storeVars == <<isReadOnlyMode, shownData, savedData, shareUrl, session>>
editVars == <<company, dataUpdate, configEdits>>
syncVars == <<tcCalculatorData, userDoc, merge>>
callVars == <<breakdown, laterValue, rateCall, load>>
restVars == <<editVars, syncVars, callVars>>
vars == <<inputVars, payVars, vestVars, projection, projVars, priceVars, appVars,
          grantVars, storeVars, restVars>>

(***************************************************************************)
(* Bounds of the model and constants of the program.                       *)
(***************************************************************************)
\* The calendar year of the clock.
CurrentYear == 2025
\* Grants are dated from CurrentYear - MaxGrantAge to CurrentYear + 1.
MaxGrantAge == 5
\* Shares are held in units of 1/ShareScale: (x * (pct / 4)) / 100.
ShareScale == 400
\* 100 percent, in units of 1/4 percent.
FullPercentage == 400

Max(a, b) == IF a >= b THEN a ELSE b
Abs(a) == IF a >= 0 THEN a ELSE 0 - a
Range(s) == {s[i] : i \in DOMAIN s}

(***************************************************************************)
(* Dates.  new Date(year, monthIndex, day) normalises a day past the end   *)
(* of the month into the next month (29 February of a non-leap year is     *)
(* 1 March).  Months are 1..12 here (getMonth() + 1).                      *)
(***************************************************************************)
IsLeapYear(y) == (y % 4 = 0 /\ y % 100 # 0) \/ y % 400 = 0

DaysInMonth(y, m) ==
    IF m = 2 THEN (IF IsLeapYear(y) THEN 29 ELSE 28)
    ELSE IF m \in {4, 6, 9, 11} THEN 30 ELSE 31

\* new Date(y, m - 1, d) for 1 <= d <= 31: [year, month, day].
MakeDate(y, m, d) ==
    IF d <= DaysInMonth(y, m) THEN [year |-> y, month |-> m, day |-> d]
    ELSE IF m = 12 THEN [year |-> y + 1, month |-> 1, day |-> d - DaysInMonth(y, m)]
    ELSE [year |-> y, month |-> m + 1, day |-> d - DaysInMonth(y, m)]

(***************************************************************************)
(* StockPriceService.getHistoricalPrice on a loaded data file.  A file is  *)
(* [exists, series]: series is the "Monthly Time Series" object in key     *)
(* order, each entry [year, month, day, close].                            *)
(***************************************************************************)
\* date < date as the strings "YYYY-MM-DD" compare
DateBefore(a, b) ==
    \/ a.year < b.year
    \/ a.year = b.year /\ a.month < b.month
    \/ a.year = b.year /\ a.month = b.month /\ a.day < b.day

\* dates.find(...): the first entry in key order of that year and month, or 0
ExactMatch(series, year, month) ==
    LET hits == {i \in DOMAIN series : series[i].year = year /\ series[i].month = month}
    IN IF hits = {} THEN 0 ELSE CHOOSE i \in hits : \A j \in hits : i <= j

\* sameYear.sort(), then the first entry at the least distance |dateMonth - month|
ClosestInYear(series, year, month) ==
    LET same == {i \in DOMAIN series : series[i].year = year}
        best == {i \in same : \A j \in same :
                    Abs(series[i].month - month) <= Abs(series[j].month - month)}
    IN IF same = {} THEN 0
       ELSE CHOOSE i \in best : \A j \in best : i = j \/ DateBefore(series[i], series[j])

\* findClosestDate: the index of the chosen entry, or 0 for null
FindClosestDate(series, year, month) ==
    IF ExactMatch(series, year, month) # 0 THEN ExactMatch(series, year, month)
    ELSE ClosestInYear(series, year, month)

\* getHistoricalPrice once loadStockData has answered with `file`
HistoricalPriceOf(file, year, month) ==
    IF ~file.exists THEN 0
    ELSE LET i == FindClosestDate(file.series, year, month)
         IN IF i # 0 THEN file.series[i].close ELSE 0

(***************************************************************************)
(* CompensationCalculator: the vested and the remaining value of a grant.  *)
(* A grant is [grantDate, totalShares, schedule]; schedule is              *)
(* vestingPattern.schedule.                                                *)
(***************************************************************************)
GrantYear(grant) == grant.grantDate.year
GrantMonth(grant) == grant.grantDate.month

\* every tranche at the current price, the historical lookup left out
VestPriceCurrent(file, currentStockPrice, clock, year, month) == currentStockPrice

\* the price of a tranche: historical for a past vest, else the current price
VestPrice(file, currentStockPrice, clock, year, month) ==
    IF year < clock.year \/ (year = clock.year /\ month <= clock.month)
    THEN LET p == HistoricalPriceOf(file, year, month)
         IN IF p = 0 THEN currentStockPrice ELSE p
    ELSE currentStockPrice

\* the inner loop with the as-of month gating the months of every year, not only those
\* of the as-of year
RECURSIVE VestedMonthsAllGated(_, _, _, _, _, _, _, _, _, _)
VestedMonthsAllGated(grant, cal, file, price, clock, checkYear, checkMonth, year, k, acc) ==
    IF k > Len(cal) THEN acc
    ELSE LET vestingMonth == cal[k]
             quarterlyShares == grant.totalShares * grant.schedule[year - GrantYear(grant) + 1]
             skip == \/ year = GrantYear(grant) /\ vestingMonth < GrantMonth(grant)
                     \/ vestingMonth > checkMonth
             p == VestPrice(file, price, clock, year, vestingMonth)
         IN VestedMonthsAllGated(grant, cal, file, price, clock, checkYear, checkMonth,
                year, k + 1,
                IF skip THEN acc
                ELSE [totalVested |-> acc.totalVested + quarterlyShares * p,
                      vestedShares |-> acc.vestedShares + quarterlyShares])

\* the inner loop of calculateVestedValue over the vesting months of one year
RECURSIVE VestedMonths(_, _, _, _, _, _, _, _, _, _)
VestedMonths(grant, cal, file, price, clock, checkYear, checkMonth, year, k, acc) ==
    IF k > Len(cal) THEN acc
    ELSE LET vestingMonth == cal[k]
             quarterlyShares == grant.totalShares * grant.schedule[year - GrantYear(grant) + 1]
             skip == \/ year = GrantYear(grant) /\ vestingMonth < GrantMonth(grant)
                     \/ year = checkYear /\ vestingMonth > checkMonth
             p == VestPrice(file, price, clock, year, vestingMonth)
         IN VestedMonths(grant, cal, file, price, clock, checkYear, checkMonth, year, k + 1,
                IF skip THEN acc
                ELSE [totalVested |-> acc.totalVested + quarterlyShares * p,
                      vestedShares |-> acc.vestedShares + quarterlyShares])

\* the outer loop of calculateVestedValue over the vesting years
RECURSIVE VestedYears(_, _, _, _, _, _, _, _, _)
VestedYears(grant, cal, file, price, clock, checkYear, checkMonth, year, acc) ==
    IF ~(year < GrantYear(grant) + Len(grant.schedule)) THEN acc
    ELSE IF year > checkYear THEN acc
    ELSE IF grant.schedule[year - GrantYear(grant) + 1] = 0
         THEN VestedYears(grant, cal, file, price, clock, checkYear, checkMonth, year + 1, acc)
    ELSE VestedYears(grant, cal, file, price, clock, checkYear, checkMonth, year + 1,
            VestedMonths(grant, cal, file, price, clock, checkYear, checkMonth, year, 1, acc))

\* calculateVestedValue without the gate on the as-of month: the whole as-of year counts
CalculateVestedValueWholeYear(grant, cal, file, price, clock, targetYear, targetMonth) ==
    VestedYears(grant, cal, file, price, clock,
                IF targetYear # 0 THEN targetYear ELSE clock.year, 12, GrantYear(grant),
                [totalVested |-> 0, vestedShares |-> 0])

\* calculateVestedValue; targetYear, targetMonth = 0 stand for an omitted argument
CalculateVestedValue(grant, cal, file, price, clock, targetYear, targetMonth) ==
    LET checkYear == IF targetYear # 0 THEN targetYear ELSE clock.year
        checkMonth == IF targetMonth # 0 THEN targetMonth ELSE clock.month
    IN VestedYears(grant, cal, file, price, clock, checkYear, checkMonth, GrantYear(grant),
                   [totalVested |-> 0, vestedShares |-> 0])

CalculateTotalGrantValue(grant, currentStockPrice) ==
    grant.totalShares * ShareScale * currentStockPrice

\* the inner loop of calculateRemainingValue: [completedQuarters, hasIncompleteYear]
RECURSIVE CompletedQuarters(_, _, _, _, _, _, _)
CompletedQuarters(grant, cal, currentYear, currentMonth, vestingYear, k, completed) ==
    IF k > Len(cal) THEN [completedQuarters |-> completed, hasIncompleteYear |-> FALSE]
    ELSE IF vestingYear = GrantYear(grant) /\ cal[k] < GrantMonth(grant)
         THEN CompletedQuarters(grant, cal, currentYear, currentMonth, vestingYear, k + 1, completed)
    ELSE IF currentYear > vestingYear \/ (currentYear = vestingYear /\ currentMonth >= cal[k])
         THEN CompletedQuarters(grant, cal, currentYear, currentMonth, vestingYear, k + 1, completed + 1)
    ELSE [completedQuarters |-> completed, hasIncompleteYear |-> TRUE]

\* the outer loop of calculateRemainingValue: totalVestedPercentage, in 1/4 percent
RECURSIVE TotalVestedPercentage(_, _, _, _, _, _)
TotalVestedPercentage(grant, cal, currentYear, currentMonth, vestingYearIndex, total) ==
    IF ~(vestingYearIndex < Len(grant.schedule)) THEN total
    ELSE LET vestingYear == GrantYear(grant) + vestingYearIndex
             q == CompletedQuarters(grant, cal, currentYear, currentMonth, vestingYear, 1, 0)
             t == total + q.completedQuarters * grant.schedule[vestingYearIndex + 1]
         IN IF q.hasIncompleteYear \/ vestingYear > currentYear THEN t
            ELSE TotalVestedPercentage(grant, cal, currentYear, currentMonth,
                                       vestingYearIndex + 1, t)

\* calculateRemainingValue(grant, currentStockPrice, currentYear, vestingSchedule);
\* the month is read from the clock
CalculateRemainingValue(grant, currentStockPrice, currentYear, cal, clock) ==
    LET yearsFromGrant == currentYear - GrantYear(grant)
    IN IF yearsFromGrant < 0 THEN CalculateTotalGrantValue(grant, currentStockPrice)
       ELSE IF yearsFromGrant >= Len(grant.schedule) THEN 0
       ELSE LET pct == TotalVestedPercentage(grant, cal, currentYear, clock.month, 0, 0)
                remainingPercentage == Max(0, FullPercentage - pct)
            IN grant.totalShares * remainingPercentage * currentStockPrice

(***************************************************************************)
(* CompensationCalculator: the yearly projection.  Money is held in units  *)
(* of 1/400 currency unit (ShareScale), a performance multiplier in        *)
(* quarters (4 is x1.0) and an exchange rate as a whole number.            *)
(***************************************************************************)
\* an optional field that is absent (undefined)
Undefined == -1
\* JavaScript's x || y
Truthy(x) == x # 0 /\ x # Undefined
OrElse(x, y) == IF Truthy(x) THEN x ELSE y

\* array.filter(config => config.year <= year)
RECURSIVE FilterUpTo(_, _)
FilterUpTo(configs, year) ==
    IF configs = <<>> THEN <<>>
    ELSE (IF Head(configs).year <= year THEN <<Head(configs)>> ELSE <<>>)
         \o FilterUpTo(Tail(configs), year)

\* one step of the stable sort by descending year: c goes after every config of
\* its year or a later one
RECURSIVE InsertDesc(_, _)
InsertDesc(sorted, c) ==
    IF sorted = <<>> THEN <<c>>
    ELSE IF Head(sorted).year >= c.year THEN <<Head(sorted)>> \o InsertDesc(Tail(sorted), c)
    ELSE <<c>> \o sorted

\* the sort left out: the configs stay in the order they are listed
SortDescOmitted(configs) == configs

\* array.sort((a, b) => b.year - a.year), which is stable
RECURSIVE SortDesc(_)
SortDesc(configs) ==
    IF configs = <<>> THEN <<>>
    ELSE InsertDesc(SortDesc(SubSeq(configs, 1, Len(configs) - 1)), configs[Len(configs)])

\* getSalaryForYear
GetSalaryForYear(configs, legacyBaseSalary, year) ==
    IF Len(configs) > 0
    THEN LET sortedConfigs == SortDesc(FilterUpTo(configs, year))
         IN OrElse(IF sortedConfigs # <<>> THEN sortedConfigs[1].amount ELSE Undefined,
                   OrElse(legacyBaseSalary, 0))
    ELSE OrElse(legacyBaseSalary, 0)

\* getBonusConfigForYear
GetBonusConfigForYear(configs, year) ==
    LET sortedConfigs == SortDesc(FilterUpTo(configs, year))
    IN IF sortedConfigs # <<>> THEN sortedConfigs[1]
       ELSE [percentage |-> 15, year |-> year, performanceMultiplier |-> 4]

\* bonus = baseSalary * (percentage / 100) * (performanceMultiplier || 1)
BonusOf(baseSalaryAmount, bonusConfig) ==
    baseSalaryAmount * bonusConfig.percentage * OrElse(bonusConfig.performanceMultiplier, 4)

\* calculateQuarterlyVestsForYear with the annual shares spread over the calendar's
\* months instead of over four quarters
CalculateQuarterlyVestsPerMonth(grant, targetYear, cal) ==
    LET yearsFromGrant == targetYear - GrantYear(grant)
    IN IF yearsFromGrant < 0 \/ yearsFromGrant >= Len(grant.schedule) THEN <<>>
       ELSE IF grant.schedule[yearsFromGrant + 1] = 0 THEN <<>>
       ELSE LET kept == SelectSeq(cal,
                            LAMBDA vestingMonth :
                                ~(yearsFromGrant = 0 /\ vestingMonth < GrantMonth(grant)))
            IN [k \in DOMAIN kept |->
                    [month |-> kept[k],
                     shares |-> (grant.totalShares * grant.schedule[yearsFromGrant + 1] * 4)
                                    \div Len(cal)]]

\* calculateQuarterlyVestsForYear without the early return for a year that vests
\* nothing: such a year gets its tranches, of no shares
CalculateQuarterlyVestsKeepingZero(grant, targetYear, cal) ==
    LET yearsFromGrant == targetYear - GrantYear(grant)
    IN IF yearsFromGrant < 0 \/ yearsFromGrant >= Len(grant.schedule) THEN <<>>
       ELSE LET kept == SelectSeq(cal,
                            LAMBDA vestingMonth :
                                ~(yearsFromGrant = 0 /\ vestingMonth < GrantMonth(grant)))
            IN [k \in DOMAIN kept |->
                    [month |-> kept[k],
                     shares |-> grant.totalShares * grant.schedule[yearsFromGrant + 1]]]

\* calculateQuarterlyVestsForYear: the tranches [month, shares] of a grant in a year
CalculateQuarterlyVestsForYear(grant, targetYear, cal) ==
    LET yearsFromGrant == targetYear - GrantYear(grant)
    IN IF yearsFromGrant < 0 \/ yearsFromGrant >= Len(grant.schedule) THEN <<>>
       ELSE IF grant.schedule[yearsFromGrant + 1] = 0 THEN <<>>
       ELSE LET quarterlyShares == grant.totalShares * grant.schedule[yearsFromGrant + 1]
                kept == SelectSeq(cal,
                            LAMBDA vestingMonth :
                                ~(yearsFromGrant = 0 /\ vestingMonth < GrantMonth(grant)))
            IN [k \in DOMAIN kept |-> [month |-> kept[k], shares |-> quarterlyShares]]

\* the value of the tranches of an existing grant in a year
RECURSIVE VestsValue(_, _, _, _, _)
VestsValue(vests, year, currentStockPrice, file, clock) ==
    IF vests = <<>> THEN 0
    ELSE Head(vests).shares * VestPrice(file, currentStockPrice, clock, year, Head(vests).month)
         + VestsValue(Tail(vests), year, currentStockPrice, file, clock)

\* for (const grant of grants): the existing grants
RECURSIVE ExistingGrantsValue(_, _, _, _, _, _)
ExistingGrantsValue(grants, year, currentStockPrice, cal, file, clock) ==
    IF grants = <<>> THEN 0
    ELSE VestsValue(CalculateQuarterlyVestsForYear(Head(grants), year, cal),
                    year, currentStockPrice, file, clock)
         + ExistingGrantsValue(Tail(grants), year, currentStockPrice, cal, file, clock)

\* grants.reduce((latest, grant) => getYear(grant) > getYear(latest) ? grant : latest)
RECURSIVE ReduceLatest(_, _)
ReduceLatest(latest, grants) ==
    IF grants = <<>> THEN latest
    ELSE ReduceLatest(IF GrantYear(Head(grants)) > GrantYear(latest) THEN Head(grants) ELSE latest,
                      Tail(grants))

MostRecentGrant(grants) == ReduceLatest(Head(grants), Tail(grants))

\* { ...mostRecentGrant, grantDate: new Date(futureGrantYear, month, date) }
FutureGrant(template, futureGrantYear) ==
    [template EXCEPT !.grantDate =
        MakeDate(futureGrantYear, template.grantDate.month, template.grantDate.day)]

RECURSIVE SharesOf(_)
SharesOf(vests) == IF vests = <<>> THEN 0 ELSE Head(vests).shares + SharesOf(Tail(vests))

\* the loop over future grants begun a year early, at the current year
FirstFutureGrantYearEarly(clock) == clock.year

\* the first year of the loop over future grants
FirstFutureGrantYear(clock) == clock.year + 1

\* for (futureGrantYear = currentYear + 1; futureGrantYear <= year; futureGrantYear++)
RECURSIVE FutureGrantsValue(_, _, _, _, _)
FutureGrantsValue(template, futureGrantYear, year, currentStockPrice, cal) ==
    IF futureGrantYear > year THEN 0
    ELSE SharesOf(CalculateQuarterlyVestsForYear(FutureGrant(template, futureGrantYear), year, cal))
            * currentStockPrice
         + FutureGrantsValue(template, futureGrantYear + 1, year, currentStockPrice, cal)

\* calculateRSUVestingForYear extrapolating, for want of a grant, from a grant of 1000
\* shares of the current year
CalculateRSUVestingAssumingGrant(grants, year, currentStockPrice, cal, file, clock) ==
    ExistingGrantsValue(grants, year, currentStockPrice, cal, file, clock)
    + (IF year > clock.year
       THEN FutureGrantsValue(
                IF Len(grants) > 0 THEN MostRecentGrant(grants)
                ELSE [grantDate |-> MakeDate(clock.year, 1, 15), totalShares |-> 1000,
                      schedule |-> <<25, 25, 25, 25>>],
                FirstFutureGrantYear(clock), year, currentStockPrice, cal)
       ELSE 0)

\* calculateRSUVestingForYear
CalculateRSUVestingForYear(grants, year, currentStockPrice, cal, file, clock) ==
    ExistingGrantsValue(grants, year, currentStockPrice, cal, file, clock)
    + (IF Len(grants) > 0 /\ year > clock.year
       THEN FutureGrantsValue(MostRecentGrant(grants), FirstFutureGrantYear(clock), year,
                              currentStockPrice, cal)
       ELSE 0)

\* calculateYearlyProjection converting the whole of totalComp, salary and bonus too
CalculateYearlyProjectionConvertingAll(data, year, rate, file, clock) ==
    LET salary == GetSalaryForYear(data.salaryConfigs, data.baseSalary, year)
        bonus == BonusOf(salary, GetBonusConfigForYear(data.bonusConfigs, year))
        rsuVest == CalculateRSUVestingForYear(data.rsuGrants, year, data.stockPrice,
                                              data.vestingSchedule, file, clock)
        same == data.baseCurrency = data.rsuCurrency
    IN [year |-> year,
        baseSalary |-> salary * ShareScale,
        bonus |-> bonus,
        rsuVest |-> rsuVest,
        rsuVestInBaseCurrency |-> IF same THEN rsuVest ELSE rsuVest * rate,
        totalComp |-> salary * ShareScale + bonus + rsuVest,
        totalCompInBaseCurrency |->
            IF same THEN salary * ShareScale + bonus + rsuVest
            ELSE (salary * ShareScale + bonus + rsuVest) * rate]

\* calculateYearlyProjection; data is the CompensationData record
CalculateYearlyProjection(data, year, rate, file, clock) ==
    LET salary == GetSalaryForYear(data.salaryConfigs, data.baseSalary, year)
        bonusConfig == GetBonusConfigForYear(data.bonusConfigs, year)
        bonus == BonusOf(salary, bonusConfig)
        rsuVest == CalculateRSUVestingForYear(data.rsuGrants, year, data.stockPrice,
                                              data.vestingSchedule, file, clock)
        rsuVestInBaseCurrency ==
            IF data.baseCurrency = data.rsuCurrency THEN rsuVest ELSE rsuVest * rate
        totalComp == salary * ShareScale + bonus + rsuVest
    IN [year |-> year,
        baseSalary |-> salary * ShareScale,
        bonus |-> bonus,
        rsuVest |-> rsuVest,
        rsuVestInBaseCurrency |-> rsuVestInBaseCurrency,
        totalComp |-> totalComp,
        totalCompInBaseCurrency |->
            IF data.baseCurrency = data.rsuCurrency THEN totalComp
            ELSE salary * ShareScale + bonus + rsuVestInBaseCurrency]

(***************************************************************************)
(* The inputs the specifications draw from.                                *)
(***************************************************************************)
\* VESTING_PATTERNS, and a custom pattern with a year that vests nothing
Schedules == {<<25, 25, 25, 25>>, <<5, 15, 40, 40>>, <<0, 50, 25, 25>>}

\* COMPANIES[..].defaultVestingSchedule, and calendars a user can enter: months
\* listed out of order, and fewer than four months
CompanyCalendars == {<<2, 5, 8, 11>>, <<3, 6, 9, 12>>, <<1, 4, 7, 10>>}
Calendars == CompanyCalendars \cup {<<11, 8, 5, 2>>, <<6, 12>>}

TotalSharesSet == {1000}
StockPrices == {100}

HistoryYears == (CurrentYear - MaxGrantAge)..CurrentYear

\* the monthly close of the data file: a different price every month
Close(y, m) == 50 + 10 * (y - (CurrentYear - MaxGrantAge)) + m

\* a data file with every month from CurrentYear - MaxGrantAge to June of CurrentYear
RECURSIVE SeriesFrom(_, _)
SeriesFrom(y, m) ==
    IF y > CurrentYear \/ (y = CurrentYear /\ m > 6) THEN <<>>
    ELSE <<[year |-> y, month |-> m, day |-> DaysInMonth(y, m), close |-> Close(y, m)]>>
         \o (IF m = 12 THEN SeriesFrom(y + 1, 1) ELSE SeriesFrom(y, m + 1))

MissingFile == [exists |-> FALSE, series |-> <<>>]
MonthlyFile == [exists |-> TRUE, series |-> SeriesFrom(CurrentYear - MaxGrantAge, 1)]
StockFiles == {MissingFile, MonthlyFile}

Grant(y, m, d, shares, schedule) ==
    [grantDate |-> MakeDate(y, m, d), totalShares |-> shares, schedule |-> schedule]

(***************************************************************************)
(* SpecVest: RSUManager shows, for a grant, the vested value (the effect   *)
(* calculateAllVestedValues) and the remaining value (computed on render), *)
(* both as of the clock.                                                   *)
(***************************************************************************)
NoResult == <<>>

\* no call of calculateProjections yet; ExchangeRateService as constructed, nothing in
\* local storage (a rate of 0 is no rate), the rate API down
NoCall ==
    [pc |-> "idle", startYear |-> 0, endYear |-> 0, exchangeRate |-> 0, year |-> 0,
     projections |-> <<>>, threw |-> FALSE, calls |-> 0, lookups |-> <<>>]

CalcIdle ==
    /\ calc = NoCall
    /\ rates = [cached |-> 0, fresh |-> FALSE, stored |-> 0, api |-> 0]

\* StockPriceService as constructed: an empty cache, and no data file served
PriceIdle ==
    /\ dataFiles = <<>>
    /\ cache = {}
    /\ lookup = NoResult

\* App as mounted, before its first effect: the initial useState values
AppIdle ==
    /\ builds = <<>>
    /\ projections = <<>>
    /\ loading = FALSE
    /\ exchangeRate = 1
    /\ lastUpdated = 0
    /\ written = {}

\* no call of calculateVestedValue with an as-of date, nor of
\* calculateQuarterlyVestsForYear, yet
GrantIdle ==
    /\ asOfValue = NoResult
    /\ quarterlyVests = NoResult

\* createSampleData(), as far as the store is concerned
SampleData == [source |-> "sample", salary |-> 120]

\* App opened without a shared URL and with nothing in local storage: it shows the
\* sample data, which the save effect has stored
StoreIdle ==
    /\ isReadOnlyMode = FALSE
    /\ shownData = SampleData
    /\ savedData = <<SampleData>>
    /\ shareUrl = <<>>
    /\ session = [fromSharedUrl |-> FALSE, stored |-> <<>>]

\* createSampleData(): the company; no edit made yet
EditIdle ==
    /\ company = "Meta"
    /\ dataUpdate = NoResult
    /\ configEdits = NoResult

\* nobody signed in: nothing under 'tcCalculatorData', no document, no call
SyncIdle ==
    /\ tcCalculatorData = <<>>
    /\ userDoc = <<>>
    /\ merge = NoResult

\* no breakdown rendered, and no call of the services noted yet
CallIdle ==
    /\ breakdown = NoResult
    /\ laterValue = NoResult
    /\ rateCall = NoResult
    /\ load = NoResult

RestIdle == EditIdle /\ SyncIdle /\ CallIdle

\* createSampleData(): the salary, the bonus and the currencies of a new user
SampleSalaryConfigs == <<[amount |-> 120, year |-> CurrentYear]>>
SampleBonusConfigs == <<[percentage |-> 15, year |-> CurrentYear, performanceMultiplier |-> 4]>>

SamplePay ==
    /\ salaryConfigs = SampleSalaryConfigs
    /\ bonusConfigs = SampleBonusConfigs
    /\ baseSalary = 120
    /\ baseCurrency = "GBP"
    /\ rsuCurrency = "USD"

InitVest ==
    /\ \E y \in (CurrentYear - MaxGrantAge)..(CurrentYear + 1), m \in 1..12,
          shares \in TotalSharesSet, schedule \in Schedules :
            rsuGrants = <<Grant(y, m, 15, shares, schedule)>>
    /\ vestingSchedule \in Calendars
    /\ stockPrice \in StockPrices
    /\ \E m \in 1..12 : now = [year |-> CurrentYear, month |-> m]
    /\ stockData \in StockFiles
    /\ vestedValues = NoResult
    /\ remainingValues = NoResult
    /\ SamplePay
    /\ projection = NoResult
    /\ CalcIdle /\ PriceIdle /\ AppIdle /\ GrantIdle /\ StoreIdle /\ RestIdle

\* RSUManager.tsx: calculateAllVestedValues, for every grant
CalculateAllVestedValues ==
    /\ Len(rsuGrants) > 0
    /\ vestedValues = NoResult
    /\ vestedValues' = [i \in DOMAIN rsuGrants |->
            CalculateVestedValue(rsuGrants[i], vestingSchedule, stockData, stockPrice, now, 0, 0)]
    /\ UNCHANGED <<inputVars, payVars, remainingValues, projection>>
    /\ UNCHANGED <<projVars, priceVars, appVars, grantVars, storeVars, restVars>>

\* RSUManager.tsx: calculateRemainingValue(grant, stockPrice, currentYear, vestingSchedule)
RenderRemainingValues ==
    /\ remainingValues = NoResult
    /\ Len(rsuGrants) > 0
    /\ remainingValues' = [i \in DOMAIN rsuGrants |->
            CalculateRemainingValue(rsuGrants[i], stockPrice, now.year, vestingSchedule, now)]
    /\ UNCHANGED <<inputVars, payVars, vestedValues, projection>>
    /\ UNCHANGED <<projVars, priceVars, appVars, grantVars, storeVars, restVars>>

NextVest == CalculateAllVestedValues \/ RenderRemainingValues

SpecVest == InitVest /\ [][NextVest]_vars

(***************************************************************************)
(* Claims about the vested and the remaining value (SpecVest).             *)
(***************************************************************************)
BothComputed == vestedValues # NoResult /\ remainingValues # NoResult

RECURSIVE SumSeq(_)
SumSeq(s) == IF s = <<>> THEN 0 ELSE Head(s) + SumSeq(Tail(s))

\* a calendar of four months in ascending order, and a schedule that sums to 100
WellFormed(grant, cal) ==
    /\ Len(cal) = 4
    /\ \A i, j \in DOMAIN cal : i < j => cal[i] < cal[j]
    /\ SumSeq(grant.schedule) = 100

\* C2: conservation law: at any as-of (year, month), with a current price > 0, the
\* vested shares plus the remaining shares (remaining value / current price) are
\* the grant's total shares. Stated here for a calendar of four ascending months and
\* a schedule summing to 100, where the claim has no excuse.
C2_Conservation ==
    (BothComputed /\ stockPrice > 0) =>
        \A i \in DOMAIN rsuGrants :
            WellFormed(rsuGrants[i], vestingSchedule) =>
                vestedValues[i].vestedShares + remainingValues[i] \div stockPrice
                    = rsuGrants[i].totalShares * ShareScale

\* C3: a grant with schedule [25,25,25,25], any grant month and any calendar of four
\* months: from the year grantYear + 4 on, the remaining value is 0 and the vested
\* shares are the total shares.
C3_FullyVestedAfterFourYears ==
    BothComputed =>
        \A i \in DOMAIN rsuGrants :
            (/\ rsuGrants[i].schedule = <<25, 25, 25, 25>>
             /\ Len(vestingSchedule) = 4
             /\ now.year >= GrantYear(rsuGrants[i]) + 4) =>
                /\ remainingValues[i] = 0
                /\ vestedValues[i].vestedShares = rsuGrants[i].totalShares * ShareScale

\* C10: fully-vested short-circuit: when asOfYear - grantYear >= the schedule's length,
\* vestedShares = totalShares, totalVested = totalShares * currentStockPrice, and the
\* remaining value is 0.
C10_FullyVestedShortCircuit ==
    BothComputed =>
        \A i \in DOMAIN rsuGrants :
            now.year - GrantYear(rsuGrants[i]) >= Len(rsuGrants[i].schedule) =>
                /\ vestedValues[i].vestedShares = rsuGrants[i].totalShares * ShareScale
                /\ vestedValues[i].totalVested
                       = rsuGrants[i].totalShares * ShareScale * stockPrice
                /\ remainingValues[i] = 0

\* the tranches of a grant: (vesting-year index, calendar position), less those of
\* the grant year that fall before the grant month
TranchesOf(grant, cal) ==
    {t \in (0..(Len(grant.schedule) - 1)) \X DOMAIN cal :
        ~(t[1] = 0 /\ cal[t[2]] < GrantMonth(grant))}

\* the tranches at or before the (year, month)
TranchesUpTo(grant, cal, year, month) ==
    {t \in TranchesOf(grant, cal) :
        \/ GrantYear(grant) + t[1] < year
        \/ GrantYear(grant) + t[1] = year /\ cal[t[2]] <= month}

\* the sum of f over the set S
RECURSIVE SumOver(_, _)
SumOver(f, S) ==
    IF S = {} THEN 0
    ELSE LET x == CHOOSE x \in S : TRUE IN f[x] + SumOver(f, S \ {x})

\* vestedPct, in 1/4 percent: schedule[i] / 4 percent for every tranche reached
VestedPct(grant, cal, year, month) ==
    SumOver([t \in TranchesUpTo(grant, cal, year, month) |-> grant.schedule[t[1] + 1]],
            TranchesUpTo(grant, cal, year, month))

\* C11: calculateRemainingValue is (100 - vestedPct) * totalShares / 100 * currentPrice,
\* vestedPct being the sum of schedule[i] / 4 over every tranche at or before the current
\* (year, month), whatever the order the calendar lists its months in; and the full
\* grant value when the grant year is in the future.
C11_RemainingIsComplement ==
    remainingValues # NoResult =>
        \A i \in DOMAIN rsuGrants :
            remainingValues[i] =
                IF now.year < GrantYear(rsuGrants[i])
                THEN CalculateTotalGrantValue(rsuGrants[i], stockPrice)
                ELSE rsuGrants[i].totalShares
                        * (FullPercentage
                            - VestedPct(rsuGrants[i], vestingSchedule, now.year, now.month))
                        * stockPrice

(***************************************************************************)
(* SpecStep: the step functions of salary and bonus.  The data comes from  *)
(* initializeData (a shared URL or local storage, decoded as it is, then   *)
(* the legacy migration); the projection of a year is then computed.       *)
(***************************************************************************)
\* at most MaxConfigs salary configs, and as many bonus configs
MaxConfigs == 3

BoundedSeq(S, n) == UNION {[1..k -> S] : k \in 0..n}

ConfigYears == {CurrentYear - 3, CurrentYear - 1}
SalaryConfigSet == [amount : {0, 100, 140}, year : ConfigYears]
BonusConfigSet == [percentage : {10, 20}, year : ConfigYears, performanceMultiplier : {0, 5}]

\* the years App asks projections for: currentYear - 4 .. currentYear + 3
YearsBack == 4
YearsAhead == 3
ProjectionYears == (CurrentYear - YearsBack)..(CurrentYear + YearsAhead)

\* initializeData: a legacy baseSalary becomes the only salary config
MigrateLegacy(configs, legacyBaseSalary) ==
    IF Truthy(legacyBaseSalary) /\ Len(configs) = 0
    THEN <<[amount |-> legacyBaseSalary, year |-> CurrentYear]>>
    ELSE configs

Data ==
    [salaryConfigs |-> salaryConfigs, bonusConfigs |-> bonusConfigs,
     baseSalary |-> baseSalary, baseCurrency |-> baseCurrency, rsuCurrency |-> rsuCurrency,
     rsuGrants |-> rsuGrants, stockPrice |-> stockPrice, vestingSchedule |-> vestingSchedule]

InitStep ==
    /\ rsuGrants = <<>>
    /\ vestingSchedule = <<2, 5, 8, 11>>
    /\ stockPrice \in StockPrices
    /\ now = [year |-> CurrentYear, month |-> 6]
    /\ stockData = MissingFile
    /\ baseSalary \in {0, 120}
    /\ \/ /\ \E configs \in BoundedSeq(SalaryConfigSet, MaxConfigs) :
                salaryConfigs = MigrateLegacy(configs, baseSalary)
          /\ bonusConfigs = SampleBonusConfigs
       \/ /\ salaryConfigs = MigrateLegacy(<<>>, baseSalary)
          /\ bonusConfigs \in BoundedSeq(BonusConfigSet, MaxConfigs)
    /\ baseCurrency = "GBP"
    /\ rsuCurrency = "GBP"
    /\ vestedValues = NoResult
    /\ remainingValues = NoResult
    /\ projection = NoResult
    /\ CalcIdle /\ PriceIdle /\ AppIdle /\ GrantIdle /\ StoreIdle /\ RestIdle

\* calculateYearlyProjection(data, year, 1, stockSymbol), one year of the series
ProjectYear ==
    /\ \E year \in ProjectionYears :
            projection' = CalculateYearlyProjection(Data, year, 1, stockData, now)
    /\ UNCHANGED <<inputVars, payVars, vestVars, projVars, priceVars, appVars>>
    /\ UNCHANGED <<grantVars, storeVars, restVars>>

NextStep == ProjectYear

SpecStep == InitStep /\ [][NextStep]_vars

(***************************************************************************)
(* Claims about the step functions (SpecStep).                             *)
(***************************************************************************)
\* the configs of the latest year at or before `year`
Effective(configs, year) ==
    {i \in DOMAIN configs :
        /\ configs[i].year <= year
        /\ \A j \in DOMAIN configs : configs[j].year <= year => configs[j].year <= configs[i].year}

\* C7: getSalaryForYear returns the amount of the salary config with the greatest
\* year <= queryYear whenever there is one, whatever its amount (0 included), and the
\* legacy baseSalary only when no config has year <= queryYear.
C7_SalaryStepFunction ==
    projection # NoResult =>
        LET eff == Effective(salaryConfigs, projection.year)
        IN IF eff # {}
           THEN \E i \in eff : projection.baseSalary = salaryConfigs[i].amount * ShareScale
           ELSE projection.baseSalary = baseSalary * ShareScale

\* C8: bonus = baseSalary * percentage/100 * performanceMultiplier of the bonus config
\* with the greatest year <= the year, for every multiplier (0 included); with no such
\* config, bonus = baseSalary * 15/100 * 1.0.
C8_BonusStepFunction ==
    projection # NoResult =>
        LET eff == Effective(bonusConfigs, projection.year)
            salary == projection.baseSalary \div ShareScale
        IN IF eff # {}
           THEN \E i \in eff :
                    projection.bonus = salary * bonusConfigs[i].percentage
                                              * bonusConfigs[i].performanceMultiplier
           ELSE projection.bonus = salary * 15 * 4

\* the sequence s in the order f
Permuted(s, f) == [i \in DOMAIN s |-> s[f[i]]]

\* the salary and the bonus of the projection are those of every reordering of the
\* salary configs and of the bonus configs
SameUnderReordering ==
    /\ \A f \in Permutations(DOMAIN salaryConfigs) :
            LET p == CalculateYearlyProjection(
                        [Data EXCEPT !.salaryConfigs = Permuted(salaryConfigs, f)],
                        projection.year, 1, stockData, now)
            IN p.baseSalary = projection.baseSalary /\ p.bonus = projection.bonus
    /\ \A f \in Permutations(DOMAIN bonusConfigs) :
            LET p == CalculateYearlyProjection(
                        [Data EXCEPT !.bonusConfigs = Permuted(bonusConfigs, f)],
                        projection.year, 1, stockData, now)
            IN p.baseSalary = projection.baseSalary /\ p.bonus = projection.bonus

\* C9 as stated: for any salary (or bonus) configs and any query year, every
\* permutation of the config sequence resolves to the same value.
C9_AnyReordering == projection # NoResult => SameUnderReordering

OnePerYear(configs) ==
    \A i, j \in DOMAIN configs : configs[i].year = configs[j].year => i = j

\* C9 as amended: when the salary configs, and the bonus configs, hold at most one
\* config per year, every permutation of the config sequence resolves to the same value.
C9_ReorderingOnePerYear ==
    (projection # NoResult /\ OnePerYear(salaryConfigs) /\ OnePerYear(bonusConfigs)) =>
        SameUnderReordering

\* two salary configs of different years, the later one listed first, resolved for a
\* year after both
C9_Witness ==
    /\ projection # NoResult
    /\ OnePerYear(salaryConfigs) /\ OnePerYear(bonusConfigs)
    /\ Len(salaryConfigs) = 2
    /\ salaryConfigs[1].year > salaryConfigs[2].year
    /\ salaryConfigs[1].amount # salaryConfigs[2].amount
    /\ projection.year > salaryConfigs[1].year
    /\ projection.baseSalary = salaryConfigs[1].amount * ShareScale

(***************************************************************************)
(* SpecProj: one call of calculateProjections(data, currentYear - 4,       *)
(* currentYear + 3).  The call suspends at every await: while the rate is  *)
(* fetched, and between two years of the series; the rate API and the age  *)
(* of the cached rate change meanwhile.                                    *)
(***************************************************************************)
\* at most MaxGrants grants
MaxGrants == 2

\* the rates the API quotes; 0 is the API failing (or quoting no rate for the currency)
ApiRates == {0, 2, 3}

\* the grants a user holds: an old one, one of 29 February, one late in the same
\* year, and one of the current year
ProjGrants ==
    {Grant(CurrentYear - 3, 3, 15, 1000, <<25, 25, 25, 25>>),
     Grant(CurrentYear - 1, 2, 29, 1000, <<5, 15, 40, 40>>),
     Grant(CurrentYear - 1, 11, 15, 600, <<25, 25, 25, 25>>),
     Grant(CurrentYear, 9, 1, 800, <<0, 50, 25, 25>>)}

StartYear == CurrentYear - YearsBack
EndYear == CurrentYear + YearsAhead

\* the (startYear, endYear) calculateProjections is called with: App's, one year, and
\* a start after the end
Ranges == {<<StartYear, EndYear>>, <<CurrentYear + 2, CurrentYear + 2>>,
           <<CurrentYear + 1, CurrentYear>>}

\* the for loop stopping one year early
LoopStopsEarly(year, endYear) == year < endYear

\* for (...; year <= endYear; ...)
LoopContinues(year, endYear) == year <= endYear

\* the rate looked up again for every year
RateRefetched(call, service) ==
    IF Truthy(service.api) THEN service.api ELSE call.exchangeRate

\* the exchangeRate passed to calculateYearlyProjection: the constant of the call
RateForYear(call, service) == call.exchangeRate

\* year < currentYear || (year === currentYear && vest.month <= currentMonth)
IsHistoricalVest(clock, year, month) ==
    year < clock.year \/ (year = clock.year /\ month <= clock.month)

\* the calls of getHistoricalPrice for the tranches of one grant, in order
RECURSIVE VestsLookups(_, _, _)
VestsLookups(vests, year, clock) ==
    IF vests = <<>> THEN <<>>
    ELSE (IF IsHistoricalVest(clock, year, Head(vests).month)
          THEN <<[year |-> year, month |-> Head(vests).month]>> ELSE <<>>)
         \o VestsLookups(Tail(vests), year, clock)

\* the calls of getHistoricalPrice calculateRSUVestingForYear makes, in order
RECURSIVE LookupsForYear(_, _, _, _)
LookupsForYear(grants, year, cal, clock) ==
    IF grants = <<>> THEN <<>>
    ELSE VestsLookups(CalculateQuarterlyVestsForYear(Head(grants), year, cal), year, clock)
         \o LookupsForYear(Tail(grants), year, cal, clock)

InitProj ==
    /\ rsuGrants \in BoundedSeq(ProjGrants, MaxGrants)
    /\ vestingSchedule \in {<<2, 5, 8, 11>>, <<3, 6, 9, 12>>}
    /\ stockPrice \in StockPrices
    /\ now = [year |-> CurrentYear, month |-> 6]
    /\ stockData \in StockFiles
    /\ salaryConfigs = SampleSalaryConfigs
    /\ bonusConfigs = SampleBonusConfigs
    /\ baseSalary = 120
    /\ baseCurrency = "GBP"
    /\ rsuCurrency \in {"GBP", "USD"}
    /\ vestedValues = NoResult
    /\ remainingValues = NoResult
    /\ projection = NoResult
    /\ calc = NoCall
    /\ \E stored \in {0, 2}, cached \in {0, 2}, fresh \in BOOLEAN, api \in ApiRates :
            /\ cached # 0 => stored = cached
            /\ fresh => cached # 0
            /\ rates = [cached |-> cached, fresh |-> fresh, stored |-> stored, api |-> api]
    /\ PriceIdle /\ AppIdle /\ GrantIdle /\ StoreIdle /\ RestIdle

\* calculateProjections up to its first await: the rate is 1 for one currency, the
\* cached rate while it is less than an hour old, and else is fetched
CalculateProjections ==
    /\ calc.pc = "idle"
    /\ \E range \in Ranges :
         LET call == [calc EXCEPT !.startYear = range[1], !.endYear = range[2]]
         IN calc' = IF baseCurrency = rsuCurrency
                    THEN [call EXCEPT !.pc = "loop", !.exchangeRate = 1,
                                      !.year = range[1]]
                    ELSE IF rates.cached # 0 /\ rates.fresh
                    THEN [call EXCEPT !.pc = "loop", !.exchangeRate = rates.cached,
                                      !.year = range[1], !.calls = @ + 1]
                    ELSE [call EXCEPT !.pc = "fetching", !.calls = @ + 1]
    /\ UNCHANGED <<inputVars, payVars, vestVars, projection, rates, priceVars, appVars>>
    /\ UNCHANGED <<grantVars, storeVars, restVars>>

\* getExchangeRate after axios.get settles: a quoted rate is cached and stored; else
\* the stored rate is returned; else it throws, and calculateProjections rejects
FetchSettles ==
    /\ calc.pc = "fetching"
    /\ IF Truthy(rates.api)
       THEN /\ rates' = [rates EXCEPT !.cached = rates.api, !.fresh = TRUE,
                                      !.stored = rates.api]
            /\ calc' = [calc EXCEPT !.pc = "loop", !.exchangeRate = rates.api,
                                    !.year = calc.startYear]
       ELSE /\ rates' = rates
            /\ calc' = IF rates.stored # 0
                       THEN [calc EXCEPT !.pc = "loop", !.exchangeRate = rates.stored,
                                         !.year = calc.startYear]
                       ELSE [calc EXCEPT !.pc = "rejected", !.threw = TRUE]
    /\ UNCHANGED <<inputVars, payVars, vestVars, projection, priceVars, appVars>>
    /\ UNCHANGED <<grantVars, storeVars, restVars>>

\* one iteration of the loop over the years
ProjectNextYear ==
    /\ calc.pc = "loop"
    /\ LoopContinues(calc.year, calc.endYear)
    /\ calc' = [calc EXCEPT
                  !.projections = Append(@,
                      CalculateYearlyProjection(Data, calc.year, RateForYear(calc, rates),
                                                stockData, now)),
                  !.lookups = Append(@, LookupsForYear(rsuGrants, calc.year,
                                                       vestingSchedule, now)),
                  !.year = @ + 1]
    /\ UNCHANGED <<inputVars, payVars, vestVars, projection, rates, priceVars, appVars>>
    /\ UNCHANGED <<grantVars, storeVars, restVars>>

\* return projections
ReturnProjections ==
    /\ calc.pc = "loop"
    /\ ~LoopContinues(calc.year, calc.endYear)
    /\ calc' = [calc EXCEPT !.pc = "returned"]
    /\ UNCHANGED <<inputVars, payVars, vestVars, projection, rates, priceVars, appVars>>
    /\ UNCHANGED <<grantVars, storeVars, restVars>>

\* the rate API starts or stops failing, or quotes another rate
ApiChanges ==
    /\ calc.pc \notin {"returned", "rejected"}
    /\ \E api \in ApiRates \ {rates.api} : rates' = [rates EXCEPT !.api = api]
    /\ UNCHANGED <<inputVars, payVars, vestVars, projection, calc, priceVars, appVars>>
    /\ UNCHANGED <<grantVars, storeVars, restVars>>

\* an hour passes: the cached rate is stale
CacheExpires ==
    /\ calc.pc \notin {"returned", "rejected"}
    /\ rates.fresh
    /\ rates' = [rates EXCEPT !.fresh = FALSE]
    /\ UNCHANGED <<inputVars, payVars, vestVars, projection, calc, priceVars, appVars>>
    /\ UNCHANGED <<grantVars, storeVars, restVars>>

NextProj ==
    \/ CalculateProjections
    \/ FetchSettles
    \/ ProjectNextYear
    \/ ReturnProjections
    \/ ApiChanges
    \/ CacheExpires

SpecProj == InitProj /\ [][NextProj]_vars

(***************************************************************************)
(* Claims about calculateProjections (SpecProj).                           *)
(***************************************************************************)
\* C4: when baseCurrency differs from rsuCurrency and getExchangeRate fails (the
\* fetch fails and no rate is stored), calculateProjections does not fail: it goes on
\* to return the full series, computed with exchange rate 1.0.
C4_ConverterFailureFallsBackToOne ==
    (baseCurrency # rsuCurrency /\ calc.threw) =>
        /\ calc.pc # "rejected"
        /\ calc.exchangeRate = 1
        /\ calc.pc = "returned" =>
                Len(calc.projections) = calc.endYear - calc.startYear + 1

\* the tranches of a grant in a year: the calendar entries of a year within the
\* schedule, less, in the grant's own year, those before the grant month
TranchesIn(grant, year, cal) ==
    IF year - GrantYear(grant) \in 0..(Len(grant.schedule) - 1)
    THEN {k \in DOMAIN cal : ~(year = GrantYear(grant) /\ cal[k] < GrantMonth(grant))}
    ELSE {}

\* the shares of those tranches, each totalShares * (pct / 4) / 100
SharesIn(grant, year, cal) ==
    IF TranchesIn(grant, year, cal) = {} THEN 0
    ELSE Cardinality(TranchesIn(grant, year, cal))
            * grant.totalShares * grant.schedule[year - GrantYear(grant) + 1]

\* the value in `year` of the synthetic grant of year g, at the current price
SyntheticValue(g, year) ==
    SharesIn(FutureGrant(MostRecentGrant(rsuGrants), g), year, vestingSchedule) * stockPrice

\* the value in `year` of the existing grants, every tranche at its own price
ExistingValue(year) ==
    SumOver([i \in DOMAIN rsuGrants |->
                SumOver([k \in DOMAIN vestingSchedule |->
                            rsuGrants[i].totalShares
                                * rsuGrants[i].schedule[year - GrantYear(rsuGrants[i]) + 1]
                                * VestPrice(stockData, stockPrice, now, year, vestingSchedule[k])],
                        TranchesIn(rsuGrants[i], year, vestingSchedule))],
            DOMAIN rsuGrants)

\* the year the loop has just projected
Projected == calc.projections[Len(calc.projections)]

\* C6: for a year after the current year and at least one grant, rsuVest is the value
\* of the existing grants' tranches plus, for every g in currentYear + 1 .. year, the
\* tranches of the template grant re-dated to year g, all at the current stock price;
\* for a year up to the current year, or with no grant, no synthetic grant contributes.
C6_FutureGrantExtrapolation ==
    calc.projections # <<>> =>
        LET year == Projected.year
        IN IF year > now.year /\ Len(rsuGrants) > 0
           THEN Projected.rsuVest =
                    SumOver([i \in DOMAIN rsuGrants |->
                                SharesIn(rsuGrants[i], year, vestingSchedule) * stockPrice],
                            DOMAIN rsuGrants)
                    + SumOver([g \in (now.year + 1)..year |-> SyntheticValue(g, year)],
                              (now.year + 1)..year)
           ELSE Projected.rsuVest = ExistingValue(year)

\* one grant, the year currentYear + 2: the grant's own tranches and those of the two
\* synthetic grants, of currentYear + 1 and currentYear + 2, all contribute
C6_Witness ==
    /\ calc.projections # <<>>
    /\ Len(rsuGrants) = 1
    /\ Projected.year = now.year + 2
    /\ Cardinality((now.year + 1)..Projected.year) = 2
    /\ SharesIn(rsuGrants[1], Projected.year, vestingSchedule) > 0
    /\ SyntheticValue(now.year + 1, Projected.year) > 0
    /\ SyntheticValue(now.year + 2, Projected.year) > 0
    /\ Projected.rsuVest =
            SharesIn(rsuGrants[1], Projected.year, vestingSchedule) * stockPrice
            + SyntheticValue(now.year + 1, Projected.year)
            + SyntheticValue(now.year + 2, Projected.year)

(***************************************************************************)
(* SpecPrice: StockPriceService.  The data files are served by symbol; a   *)
(* file that was fetched and parsed stays in the cache; a fetch can fail.  *)
(***************************************************************************)
Symbols == {"META", "AAPL"}

\* a data file with a few months only: two of last year, one of this year
SparseFile ==
    [exists |-> TRUE,
     series |-> <<[year |-> CurrentYear - 1, month |-> 3, day |-> 31, close |-> 70],
                  [year |-> CurrentYear - 1, month |-> 9, day |-> 30, close |-> 90],
                  [year |-> CurrentYear, month |-> 1, day |-> 31, close |-> 110]>>]

\* a file that parses as JSON but holds no "Monthly Time Series"
MalformedFile == [exists |-> TRUE]

PriceFiles == StockFiles \cup {SparseFile, MalformedFile}

LookupYears == (CurrentYear - 2)..CurrentYear

InitPrice ==
    /\ rsuGrants = <<>>
    /\ vestingSchedule = <<2, 5, 8, 11>>
    /\ stockPrice \in StockPrices
    /\ now = [year |-> CurrentYear, month |-> 12]
    /\ stockData = MissingFile
    /\ SamplePay
    /\ vestedValues = NoResult
    /\ remainingValues = NoResult
    /\ projection = NoResult
    /\ CalcIdle /\ AppIdle /\ GrantIdle /\ StoreIdle /\ RestIdle
    /\ dataFiles \in [Symbols -> PriceFiles]
    /\ cache = {}
    /\ lookup = NoResult

\* this.cache.has(symbol)
Cached(symbol) == \E entry \in cache : entry[1] = symbol
\* this.cache.get(symbol)
CacheGet(symbol) == (CHOOSE entry \in cache : entry[1] = symbol)[2]

\* a load that keeps what a failed fetch gave
LoadStockDataCachingFailures(symbol, fetched) ==
    IF Cached(symbol) THEN [data |-> CacheGet(symbol), cache |-> cache]
    ELSE IF ~fetched \/ ~dataFiles[symbol].exists
         THEN [data |-> MissingFile, cache |-> cache \cup {<<symbol, MissingFile>>}]
    ELSE [data |-> dataFiles[symbol], cache |-> cache \cup {<<symbol, dataFiles[symbol]>>}]

\* loadStockData(symbol): [data, cache]; a data that does not exist is null.
\* fetched says whether fetch and response.json() succeed
LoadStockData(symbol, fetched) ==
    IF Cached(symbol) THEN [data |-> CacheGet(symbol), cache |-> cache]
    ELSE IF ~fetched \/ ~dataFiles[symbol].exists THEN [data |-> MissingFile, cache |-> cache]
    ELSE [data |-> dataFiles[symbol], cache |-> cache \cup {<<symbol, dataFiles[symbol]>>}]

\* the call of loadStockData as the service saw it: whether the symbol was cached when
\* it was called, whether fetch was called, what it returned, the cache before and after
LoadCall(symbol, loaded) ==
    [op |-> "loadStockData", symbol |-> symbol, wasCached |-> Cached(symbol),
     requested |-> ~Cached(symbol), data |-> loaded.data, before |-> cache,
     after |-> loaded.cache]

\* getHistoricalPrice(symbol, year, month); an exception inside is caught, and 0 returned
GetHistoricalPrice ==
    \E symbol \in Symbols, year \in LookupYears, month \in 1..12, fetched \in BOOLEAN :
        LET loaded == LoadStockData(symbol, fetched)
            caught == loaded.data.exists /\ "series" \notin DOMAIN loaded.data
        IN /\ cache' = loaded.cache
           /\ lookup' = [symbol |-> symbol, year |-> year, month |-> month,
                         price |-> IF caught THEN 0
                                   ELSE HistoricalPriceOf(loaded.data, year, month),
                         caught |-> caught, threw |-> FALSE]
           /\ load' = LoadCall(symbol, loaded)
           /\ UNCHANGED <<inputVars, payVars, vestVars, projection, projVars, appVars>>
           /\ UNCHANGED <<dataFiles, grantVars, storeVars, editVars, syncVars>>
           /\ UNCHANGED <<breakdown, laterValue, rateCall>>

\* clearCache()
ClearCache ==
    /\ cache # {}
    /\ cache' = {}
    /\ load' = [op |-> "clearCache", symbol |-> "", wasCached |-> FALSE,
                requested |-> FALSE, data |-> MissingFile, before |-> cache,
                after |-> cache']
    /\ UNCHANGED <<inputVars, payVars, vestVars, projection, projVars, appVars>>
    /\ UNCHANGED <<dataFiles, lookup, grantVars, storeVars, editVars, syncVars>>
    /\ UNCHANGED <<breakdown, laterValue, rateCall>>

NextPrice == GetHistoricalPrice \/ ClearCache

SpecPrice == InitPrice /\ [][NextPrice]_vars

(***************************************************************************)
(* Claims about the historical price (SpecPrice).                          *)
(***************************************************************************)
\* the symbol's data file holds an entry of that year and month
HasEntry(file, year, month) ==
    /\ file.exists
    /\ "series" \in DOMAIN file
    /\ \E i \in DOMAIN file.series :
            file.series[i].year = year /\ file.series[i].month = month

\* C5: getHistoricalPrice(symbol, year, month) never throws, and returns 0 whenever the
\* symbol's data file is missing or holds no entry for the requested year and month.
C5_NoEntryReturnsZero ==
    lookup # NoResult =>
        /\ ~lookup.threw
        /\ ~HasEntry(dataFiles[lookup.symbol], lookup.year, lookup.month) => lookup.price = 0

(***************************************************************************)
(* SpecApp: the recalculation effect of App.  Every run of the effect      *)
(* (on mount, and whenever dataHash changes) starts a build with its own   *)
(* isCancelled flag in its closure; the cleanup of the run before sets     *)
(* that run's flag.  A build suspends at its awaits and its timer; the     *)
(* continuations of all builds interleave.  The data of a build is named   *)
(* by its version, the number of the run.                                  *)
(***************************************************************************)
\* at most MaxBuilds runs of the effect
MaxBuilds == 3

\* the projections calculateProjections resolves with for the data of a version
ProjectionsOf(version) == <<version>>

\* the cleanup of the effect left out: isCancelled is never set
CleanupOmitted(bs) == bs

\* return () => { isCancelled = true }, of the latest run
Cleanup(bs) ==
    IF bs = <<>> THEN bs ELSE [bs EXCEPT ![Len(bs)].isCancelled = TRUE]

\* a write of App state by build b, noted with the latest build at that time
Noted(b) == written \cup {[build |-> b, latest |-> Len(builds)]}

\* the number of builds that have run to their end
Finished == Cardinality({b \in DOMAIN builds : builds[b].pc = "done"})

InitApp ==
    /\ rsuGrants = <<>>
    /\ vestingSchedule = <<2, 5, 8, 11>>
    /\ stockPrice \in StockPrices
    /\ now = [year |-> CurrentYear, month |-> 6]
    /\ stockData = MissingFile
    /\ SamplePay
    /\ vestedValues = NoResult
    /\ remainingValues = NoResult
    /\ projection = NoResult
    /\ CalcIdle /\ PriceIdle /\ AppIdle /\ GrantIdle /\ StoreIdle /\ RestIdle

\* the effect runs: the cleanup of the run before, then calculateProjections() up to
\* its first await: setLoading(true), setTimeout, the call of the calculator
RunEffect ==
    /\ Len(builds) < MaxBuilds
    /\ \E differ \in BOOLEAN :
            builds' = Append(Cleanup(builds),
                             [data |-> Len(builds) + 1, differ |-> differ, pc |-> "calc",
                              isCancelled |-> FALSE, timer |-> "armed",
                              result |-> "pending", order |-> 0])
    /\ loading' = TRUE
    /\ written' = written \cup {[build |-> Len(builds) + 1, latest |-> Len(builds) + 1]}
    /\ UNCHANGED <<projections, exchangeRate, lastUpdated>>
    /\ UNCHANGED <<inputVars, payVars, vestVars, projection, projVars, priceVars>>
    /\ UNCHANGED <<grantVars, storeVars, restVars>>

\* the callback of setTimeout, 10 seconds after the start
Timeout ==
    \E b \in DOMAIN builds :
        /\ builds[b].timer = "armed"
        /\ builds' = [builds EXCEPT ![b].timer = "fired"]
        /\ IF ~builds[b].isCancelled
           THEN loading' = FALSE /\ written' = Noted(b)
           ELSE UNCHANGED <<loading, written>>
        /\ UNCHANGED <<projections, exchangeRate, lastUpdated>>
        /\ UNCHANGED <<inputVars, payVars, vestVars, projection, projVars, priceVars>>
        /\ UNCHANGED <<grantVars, storeVars, restVars>>

\* clearTimeout(timeoutId)
ClearTimeout(timer) == IF timer = "armed" THEN "cleared" ELSE timer

\* await calculateProjections(...) resolves: the try block up to the next await, or
\* to the end of finally
CalcResolves ==
    \E b \in DOMAIN builds :
        /\ builds[b].pc = "calc"
        /\ IF ~builds[b].isCancelled
           THEN /\ projections' = ProjectionsOf(builds[b].data)
                /\ written' = Noted(b)
                /\ IF builds[b].differ
                   THEN /\ builds' = [builds EXCEPT ![b].pc = "rate", ![b].result = "resolved",
                                                    ![b].timer = ClearTimeout(@)]
                        /\ UNCHANGED <<exchangeRate, loading>>
                   ELSE /\ builds' = [builds EXCEPT ![b].pc = "done", ![b].result = "resolved",
                                                    ![b].timer = ClearTimeout(@),
                                                    ![b].order = Finished + 1]
                        /\ exchangeRate' = 1
                        /\ loading' = FALSE
           ELSE /\ builds' = [builds EXCEPT ![b].pc = "done", ![b].result = "resolved",
                                            ![b].timer = ClearTimeout(@),
                                            ![b].order = Finished + 1]
                /\ UNCHANGED <<projections, exchangeRate, loading, written>>
        /\ UNCHANGED lastUpdated
        /\ UNCHANGED <<inputVars, payVars, vestVars, projection, projVars, priceVars>>
        /\ UNCHANGED <<grantVars, storeVars, restVars>>

\* await calculateProjections(...) rejects (getExchangeRate threw): catch and finally
CalcRejects ==
    \E b \in DOMAIN builds :
        /\ builds[b].pc = "calc"
        /\ builds[b].differ
        /\ builds' = [builds EXCEPT ![b].pc = "done", ![b].result = "rejected",
                                    ![b].timer = ClearTimeout(@), ![b].order = Finished + 1]
        /\ IF ~builds[b].isCancelled
           THEN projections' = <<>> /\ loading' = FALSE /\ written' = Noted(b)
           ELSE UNCHANGED <<projections, loading, written>>
        /\ UNCHANGED <<exchangeRate, lastUpdated>>
        /\ UNCHANGED <<inputVars, payVars, vestVars, projection, projVars, priceVars>>
        /\ UNCHANGED <<grantVars, storeVars, restVars>>

\* await getExchangeRate(...) for the display settles: with a rate, or throwing (rate
\* 0 here), and then finally
RateSettles ==
    \E b \in DOMAIN builds :
        /\ builds[b].pc = "rate"
        /\ builds' = [builds EXCEPT ![b].pc = "done", ![b].order = Finished + 1]
        /\ \E rate \in ApiRates :
                IF ~builds[b].isCancelled
                THEN /\ exchangeRate' = IF rate # 0 THEN rate ELSE 1
                     /\ lastUpdated' = IF rate # 0 THEN builds[b].data ELSE lastUpdated
                     /\ loading' = FALSE
                     /\ written' = Noted(b)
                ELSE UNCHANGED <<exchangeRate, lastUpdated, loading, written>>
        /\ UNCHANGED projections
        /\ UNCHANGED <<inputVars, payVars, vestVars, projection, projVars, priceVars>>
        /\ UNCHANGED <<grantVars, storeVars, restVars>>

NextApp ==
    \/ RunEffect
    \/ Timeout
    \/ CalcResolves
    \/ CalcRejects
    \/ RateSettles

SpecApp == InitApp /\ [][NextApp]_vars

(***************************************************************************)
(* Claims about the recalculation effect (SpecApp).                        *)
(***************************************************************************)
AllDone == builds # <<>> /\ \A b \in DOMAIN builds : builds[b].pc = "done"

\* C1: once a newer build has been started, no earlier build writes projections,
\* exchangeRate, lastUpdated or loading: every write is by the build that is the
\* latest when it writes; and when every build has run to its end, the projections
\* displayed are those of the last-started build.
C1_SupersededBuildNeverWrites ==
    /\ \A w \in written : w.build = w.latest
    /\ AllDone =>
            projections = IF builds[Len(builds)].result = "resolved"
                          THEN ProjectionsOf(builds[Len(builds)].data)
                          ELSE <<>>

\* an earlier build resolved after the last-started build had run to its end, and
\* the projections displayed are still those of the last-started build
C1_Witness ==
    /\ AllDone
    /\ \E a \in DOMAIN builds :
            /\ a < Len(builds)
            /\ builds[a].result = "resolved"
            /\ builds[a].order > builds[Len(builds)].order
    /\ builds[Len(builds)].result = "resolved"
    /\ projections = ProjectionsOf(builds[Len(builds)].data)

(***************************************************************************)
(* SpecGrant: the two functions of the calculator that walk the tranches   *)
(* of one grant: calculateVestedValue, called with an as-of (year, month)  *)
(* or without one, and calculateQuarterlyVestsForYear.                     *)
(***************************************************************************)
\* calendars of four months, in and out of order, of two months and of six
GrantCalendars == {<<2, 5, 8, 11>>, <<11, 8, 5, 2>>, <<6, 12>>, <<1, 3, 5, 7, 9, 11>>}

\* the as-of dates asked for: before, in and after the clock's year
AsOfYears == {CurrentYear - 2, CurrentYear, CurrentYear + 1}
AsOfMonths == {2, 7, 12}

\* the latest year a tranche is asked for
LastTargetYear == CurrentYear + YearsAhead

\* the months the grant is dated in
GrantMonths == {1, 3, 6, 9, 12}

InitGrant ==
    /\ \E y \in (CurrentYear - MaxGrantAge)..(CurrentYear + 1), m \in GrantMonths,
          shares \in TotalSharesSet, schedule \in Schedules :
            rsuGrants = <<Grant(y, m, 15, shares, schedule)>>
    /\ vestingSchedule \in GrantCalendars
    /\ stockPrice \in StockPrices
    /\ now = [year |-> CurrentYear, month |-> 6]
    /\ stockData \in StockFiles
    /\ vestedValues = NoResult
    /\ remainingValues = NoResult
    /\ SamplePay
    /\ projection = NoResult
    /\ CalcIdle /\ PriceIdle /\ AppIdle /\ GrantIdle /\ StoreIdle /\ RestIdle

\* calculateVestedValue(grant, vestingSchedule, stockSymbol, currentStockPrice)
VestedValueNow ==
    /\ asOfValue = NoResult
    /\ asOfValue' = [targetYear |-> 0, targetMonth |-> 0,
                     result |-> CalculateVestedValue(rsuGrants[1], vestingSchedule, stockData,
                                                     stockPrice, now, 0, 0)]
    /\ UNCHANGED <<inputVars, payVars, vestVars, projection, projVars, priceVars, appVars>>
    /\ UNCHANGED <<quarterlyVests, storeVars, restVars>>

\* calculateVestedValue(grant, vestingSchedule, stockSymbol, currentStockPrice,
\* targetYear, targetMonth)
VestedValueAsOf ==
    /\ asOfValue = NoResult
    /\ \E targetYear \in AsOfYears, targetMonth \in AsOfMonths :
            asOfValue' = [targetYear |-> targetYear, targetMonth |-> targetMonth,
                          result |-> CalculateVestedValue(rsuGrants[1], vestingSchedule,
                                        stockData, stockPrice, now, targetYear, targetMonth)]
    /\ UNCHANGED <<inputVars, payVars, vestVars, projection, projVars, priceVars, appVars>>
    /\ UNCHANGED <<quarterlyVests, storeVars, restVars>>

\* calculateQuarterlyVestsForYear(grant, targetYear, vestingSchedule), and what the
\* loop over its tranches in calculateRSUVestingForYear adds to totalVesting
QuarterlyVestsForYear ==
    /\ quarterlyVests = NoResult
    /\ \E targetYear \in (CurrentYear - YearsBack)..LastTargetYear :
            LET vests == CalculateQuarterlyVestsForYear(rsuGrants[1], targetYear,
                                                        vestingSchedule)
            IN quarterlyVests' = [targetYear |-> targetYear, vests |-> vests,
                                  value |-> VestsValue(vests, targetYear, stockPrice,
                                                       stockData, now)]
    /\ UNCHANGED <<inputVars, payVars, vestVars, projection, projVars, priceVars, appVars>>
    /\ UNCHANGED <<asOfValue, storeVars, restVars>>

NextGrant == VestedValueNow \/ VestedValueAsOf \/ QuarterlyVestsForYear

SpecGrant == InitGrant /\ [][NextGrant]_vars

(***************************************************************************)
(* Claims about the tranches of a grant (SpecGrant).                       *)
(***************************************************************************)
\* the as-of (year, month) of the call: the clock's when the arguments are omitted
AsOfYear == IF asOfValue.targetYear # 0 THEN asOfValue.targetYear ELSE now.year
AsOfMonth == IF asOfValue.targetMonth # 0 THEN asOfValue.targetMonth ELSE now.month

\* the price of the tranche t of the grant: its historical price, the current price
\* when the lookup returns 0; a tranche after the clock has no historical price and
\* takes the current price
TranchePrice(grant, cal, t) ==
    LET year == GrantYear(grant) + t[1]
        month == cal[t[2]]
        historical == HistoricalPriceOf(stockData, year, month)
    IN IF year < now.year \/ (year = now.year /\ month <= now.month)
       THEN (IF historical = 0 THEN stockPrice ELSE historical)
       ELSE stockPrice

\* C12: calculateVestedValue counts exactly the tranches at or before the as-of
\* (year, month) that are not before the grant month in the grant year: each adds
\* its quarterlyShares to vestedShares and quarterlyShares at its historical price
\* (the current price when the lookup returns 0) to totalVested; no other tranche adds
\* anything.
C12_VestedCountsTranchesUpToAsOf ==
    asOfValue # NoResult =>
        LET grant == rsuGrants[1]
            counted == TranchesUpTo(grant, vestingSchedule, AsOfYear, AsOfMonth)
        IN /\ asOfValue.result.vestedShares =
                SumOver([t \in counted |-> grant.totalShares * grant.schedule[t[1] + 1]],
                        counted)
           /\ asOfValue.result.totalVested =
                SumOver([t \in counted |->
                            grant.totalShares * grant.schedule[t[1] + 1]
                                * TranchePrice(grant, vestingSchedule, t)],
                        counted)

\* an as-of date inside the vesting of the grant: some tranches are counted, a later
\* tranche of the as-of year is left out, and a counted tranche has a historical price
C12_Witness ==
    /\ asOfValue # NoResult
    /\ asOfValue.result.vestedShares > 0
    /\ \E t \in TranchesOf(rsuGrants[1], vestingSchedule) :
            /\ GrantYear(rsuGrants[1]) + t[1] = AsOfYear
            /\ vestingSchedule[t[2]] > AsOfMonth
            /\ rsuGrants[1].schedule[t[1] + 1] > 0
    /\ \E t \in TranchesUpTo(rsuGrants[1], vestingSchedule, AsOfYear, AsOfMonth) :
            /\ rsuGrants[1].schedule[t[1] + 1] > 0
            /\ TranchePrice(rsuGrants[1], vestingSchedule, t) # stockPrice

\* the calendar positions that give a tranche in the vesting year of index i: all of
\* them, less, for i = 0, the months strictly before the grant month
KeptPositions(grant, cal, i) ==
    {k \in DOMAIN cal : ~(i = 0 /\ cal[k] < GrantMonth(grant))}

\* one tranche per kept position, in the order of the calendar, each of
\* totalShares * schedule[i] / 4 / 100 shares
TranchePerKeptMonth ==
    LET grant == rsuGrants[1]
        i == quarterlyVests.targetYear - GrantYear(grant)
        kept == KeptPositions(grant, vestingSchedule, i)
        vests == quarterlyVests.vests
    IN (i \in 0..(Len(grant.schedule) - 1) /\ grant.schedule[i + 1] # 0) =>
            /\ Len(vests) = Cardinality(kept)
            /\ \A k \in kept :
                    LET j == Cardinality({k2 \in kept : k2 <= k})
                    IN /\ vests[j].month = vestingSchedule[k]
                       /\ vests[j].shares = grant.totalShares * grant.schedule[i + 1]

\* 1000 shares granted in March, 25% a year, calendar [2,5,8,11]
MarchGrant ==
    /\ rsuGrants[1].totalShares = 1000
    /\ GrantMonth(rsuGrants[1]) = 3
    /\ rsuGrants[1].schedule = <<25, 25, 25, 25>>
    /\ vestingSchedule = <<2, 5, 8, 11>>

\* the tranches of the March grant: n of 62.5 shares in the grant year, four in the next
MarchGrantTranches(n) ==
    MarchGrant =>
        /\ quarterlyVests.targetYear = GrantYear(rsuGrants[1]) =>
                /\ Len(quarterlyVests.vests) = n
                /\ \A j \in DOMAIN quarterlyVests.vests :
                        2 * quarterlyVests.vests[j].shares = 125 * ShareScale
        /\ quarterlyVests.targetYear = GrantYear(rsuGrants[1]) + 1 =>
                Len(quarterlyVests.vests) = 4

\* C20 as stated: one tranche per calendar month, months before the grant month
\* skipped in the grant year, each of totalShares * schedule[i] / 4 / 100 shares whatever
\* the size of the calendar; so the March grant has two tranches of 62.5 shares in the
\* grant year and four in the next.
C20_TranchePerMonth ==
    quarterlyVests # NoResult => (TranchePerKeptMonth /\ MarchGrantTranches(2))

\* C20 as amended: the same, the March grant having three tranches of 62.5 shares in
\* the grant year (May, August, November) and four in the next.
C20_TranchePerMonthThreeInGrantYear ==
    quarterlyVests # NoResult => (TranchePerKeptMonth /\ MarchGrantTranches(3))

\* the March grant asked for its grant year: May, August and November
C20_Witness ==
    /\ quarterlyVests # NoResult
    /\ MarchGrant
    /\ quarterlyVests.targetYear = GrantYear(rsuGrants[1])
    /\ Len(quarterlyVests.vests) = 3
    /\ quarterlyVests.vests[1].month = 5

\* C21: calculateQuarterlyVestsForYear returns no tranche when targetYear - grantYear
\* is negative, is at least the length of the schedule, or indexes a schedule entry
\* equal to 0; so the grant adds to rsuVest only in the years grantYear ..
\* grantYear + length - 1.
C21_NoTrancheOutsideSchedule ==
    quarterlyVests # NoResult =>
        LET grant == rsuGrants[1]
            i == quarterlyVests.targetYear - GrantYear(grant)
            none == IF i < 0 \/ i >= Len(grant.schedule) THEN TRUE
                    ELSE grant.schedule[i + 1] = 0
        IN /\ none => (quarterlyVests.vests = <<>> /\ quarterlyVests.value = 0)
           /\ quarterlyVests.value # 0 =>
                    quarterlyVests.targetYear \in
                        GrantYear(grant)..(GrantYear(grant) + Len(grant.schedule) - 1)

\* a grant whose first year vests nothing, asked for its grant year, with calendar
\* months after the grant month: no tranche
C21_Witness ==
    /\ quarterlyVests # NoResult
    /\ rsuGrants[1].schedule[1] = 0
    /\ quarterlyVests.targetYear = GrantYear(rsuGrants[1])
    /\ \E k \in DOMAIN vestingSchedule : vestingSchedule[k] >= GrantMonth(rsuGrants[1])
    /\ quarterlyVests.vests = <<>>

(***************************************************************************)
(* More claims about calculateProjections (SpecProj).                      *)
(***************************************************************************)
\* C13: calculateProjections resolves the exchange rate once per call: getExchangeRate
\* is invoked exactly once when the currencies differ and never when they match, and
\* every year's rsuVestInBaseCurrency is rsuVest at that one rate, whatever the rate
\* API quotes while the series is built.
C13_RateResolvedOnce ==
    /\ calc.calls <= 1
    /\ calc.pc # "idle" => calc.calls = IF baseCurrency = rsuCurrency THEN 0 ELSE 1
    /\ \A i \in DOMAIN calc.projections :
            calc.projections[i].rsuVestInBaseCurrency =
                calc.projections[i].rsuVest
                    * (IF baseCurrency = rsuCurrency THEN 1 ELSE calc.exchangeRate)

\* the call fetched the rate 3, the API quoted 2 before the series was returned, and
\* all the years, some with RSUs vesting, are at the rate 3
C13_Witness ==
    /\ calc.pc = "returned"
    /\ baseCurrency # rsuCurrency
    /\ calc.calls = 1
    /\ calc.exchangeRate = 3 /\ rates.cached = 3
    /\ rates.api = 2
    /\ Len(calc.projections) = YearsBack + YearsAhead + 1
    /\ \E i \in DOMAIN calc.projections :
            /\ calc.projections[i].rsuVest > 0
            /\ calc.projections[i].rsuVestInBaseCurrency = 3 * calc.projections[i].rsuVest

\* C16: calculateProjections(data, startYear, endYear) returns one YearlyProjection per
\* year of startYear..endYear, in ascending order of year: endYear - startYear + 1
\* records, none when startYear > endYear.
C16_OnePerYearAscending ==
    calc.pc = "returned" =>
        /\ Len(calc.projections) = Max(0, calc.endYear - calc.startYear + 1)
        /\ \A i \in DOMAIN calc.projections :
                calc.projections[i].year = calc.startYear + i - 1
        /\ \A i, j \in DOMAIN calc.projections :
                i < j => calc.projections[i].year < calc.projections[j].year

\* the series App asks for, returned: eight years from currentYear - 4
C16_Witness ==
    /\ calc.pc = "returned"
    /\ calc.startYear = StartYear /\ calc.endYear = EndYear
    /\ Len(calc.projections) = YearsBack + YearsAhead + 1
    /\ calc.projections[1].year = CurrentYear - YearsBack

\* C17: with one currency, rsuVestInBaseCurrency = rsuVest and totalCompInBaseCurrency
\* = totalComp; with two, totalCompInBaseCurrency = baseSalary + bonus + rsuVest *
\* exchangeRate: salary and bonus are not converted.
C17_CurrencyEqualities ==
    calc.projections # <<>> =>
        IF baseCurrency = rsuCurrency
        THEN /\ Projected.rsuVestInBaseCurrency = Projected.rsuVest
             /\ Projected.totalCompInBaseCurrency = Projected.totalComp
        ELSE Projected.totalCompInBaseCurrency =
                Projected.baseSalary + Projected.bonus
                    + Projected.rsuVest * calc.exchangeRate

\* two currencies, a rate other than 1, a year with salary, bonus and RSUs vesting
C17_Witness ==
    /\ calc.projections # <<>>
    /\ baseCurrency # rsuCurrency
    /\ calc.exchangeRate > 1
    /\ Projected.rsuVest > 0 /\ Projected.baseSalary > 0 /\ Projected.bonus > 0
    /\ Projected.totalCompInBaseCurrency > Projected.totalComp

\* C18: with no RSU grant, every record of the series has rsuVest = 0 and totalComp =
\* baseSalary + bonus, and no historical price is looked up (and nothing is
\* extrapolated).
C18_ZeroGrants ==
    rsuGrants = <<>> =>
        \A i \in DOMAIN calc.projections :
            /\ calc.projections[i].rsuVest = 0
            /\ calc.projections[i].rsuVestInBaseCurrency = 0
            /\ calc.projections[i].totalComp =
                    calc.projections[i].baseSalary + calc.projections[i].bonus
            /\ calc.lookups[i] = <<>>

\* no grant, and the eight years of the series returned: past, current and future
C18_Witness ==
    /\ rsuGrants = <<>>
    /\ calc.pc = "returned"
    /\ Len(calc.projections) = YearsBack + YearsAhead + 1
    /\ \E i \in DOMAIN calc.projections : calc.projections[i].year < now.year
    /\ \E i \in DOMAIN calc.projections : calc.projections[i].year > now.year
    /\ \A i \in DOMAIN calc.projections : calc.projections[i].totalComp > 0

\* the tranche (year, month) is in the past: before the current year, or in it and
\* at or before the current month
Past(year, month) == year < now.year \/ (year = now.year /\ month <= now.month)

\* the tranches of a grant in a year that vest something
VestingTranchesIn(grant, year) ==
    {k \in TranchesIn(grant, year, vestingSchedule) :
        grant.schedule[year - GrantYear(grant) + 1] # 0}

\* the value the claim gives the existing grants' tranches of a year
SelectedPriceValue(year) ==
    SumOver([i \in DOMAIN rsuGrants |->
                SumOver([k \in DOMAIN vestingSchedule |->
                            LET looked == HistoricalPriceOf(stockData, year, vestingSchedule[k])
                            IN rsuGrants[i].totalShares
                                * rsuGrants[i].schedule[year - GrantYear(rsuGrants[i]) + 1]
                                * (IF Past(year, vestingSchedule[k]) /\ looked > 0
                                   THEN looked ELSE stockPrice)],
                        VestingTranchesIn(rsuGrants[i], year))],
            DOMAIN rsuGrants)

\* the number of past tranches of the existing grants in a year
PastTranches(year) ==
    SumOver([i \in DOMAIN rsuGrants |->
                Cardinality({k \in VestingTranchesIn(rsuGrants[i], year) :
                                Past(year, vestingSchedule[k])})],
            DOMAIN rsuGrants)

\* C19: in calculateRSUVestingForYear the historical lookup is consulted for a tranche
\* if and only if the tranche is in the past; that tranche is valued at the price
\* looked up, or at the current price when none is available; every other tranche is
\* valued at the current price without a lookup.
C19_PriceSelection ==
    calc.projections # <<>> =>
        LET year == Projected.year
            looked == calc.lookups[Len(calc.lookups)]
        IN /\ Len(looked) = PastTranches(year)
           /\ \A j \in DOMAIN looked :
                    /\ looked[j].year = year
                    /\ Past(year, looked[j].month)
                    /\ \E i \in DOMAIN rsuGrants :
                         \E k \in VestingTranchesIn(rsuGrants[i], year) :
                            vestingSchedule[k] = looked[j].month
           /\ Projected.rsuVest =
                SelectedPriceValue(year)
                + (IF year > now.year /\ Len(rsuGrants) > 0
                   THEN SumOver([g \in (now.year + 1)..year |-> SyntheticValue(g, year)],
                                (now.year + 1)..year)
                   ELSE 0)

\* the current year of a grant with tranches before and after the clock's month, the
\* data file holding a price for the past ones
C19_Witness ==
    /\ calc.projections # <<>>
    /\ Projected.year = now.year
    /\ stockData.exists
    /\ calc.lookups[Len(calc.lookups)] # <<>>
    /\ \E i \in DOMAIN rsuGrants :
         \E k1, k2 \in VestingTranchesIn(rsuGrants[i], now.year) :
            /\ vestingSchedule[k1] = now.month
            /\ vestingSchedule[k2] > now.month
            /\ HistoricalPriceOf(stockData, now.year, vestingSchedule[k1]) # stockPrice

\* the grants no other grant is dated after
LatestDated ==
    {i \in DOMAIN rsuGrants :
        \A j \in DOMAIN rsuGrants : ~DateBefore(rsuGrants[i].grantDate, rsuGrants[j].grantDate)}

\* the value in `year` of the synthetic grants made from the template
ExtrapolatedFrom(template, year) ==
    SumOver([g \in (now.year + 1)..year |->
                SharesIn(FutureGrant(template, g), year, vestingSchedule) * stockPrice],
            (now.year + 1)..year)

\* C22: the template of the future-grant extrapolation is the grant with the latest
\* grantDate of all grants, whatever the order of the list, also when several grants
\* are of one calendar year with different months, shares or vesting patterns: the
\* rsuVest of a future year holds the synthetic grants made from that grant.
C22_TemplateIsLatestGrant ==
    (calc.projections # <<>> /\ Len(rsuGrants) > 0 /\ Projected.year > now.year) =>
        \E i \in LatestDated :
            Projected.rsuVest =
                SumOver([j \in DOMAIN rsuGrants |->
                            SharesIn(rsuGrants[j], Projected.year, vestingSchedule) * stockPrice],
                        DOMAIN rsuGrants)
                + ExtrapolatedFrom(rsuGrants[i], Projected.year)

(***************************************************************************)
(* SpecStore: App's data and the entry 'compensation-data' of local        *)
(* storage.  The page is opened with or without a shared URL (?data=);     *)
(* the user then edits, shares, resets, or leaves the shared mode.  The    *)
(* save effect runs after every render that changed compensationData or    *)
(* isReadOnlyMode, and is part of the action that caused the render.       *)
(***************************************************************************)
\* the salaries a user enters
Salaries == {100, 120, 140}

\* the viewer's own data, stored by an earlier visit
OwnData == [source : {"viewer"}, salary : Salaries]
\* the data a shared URL encodes
SharedData == [source : {"sharer"}, salary : Salaries]

\* a ?data= that atob or JSON.parse rejects
Undecodable == [source |-> "undecodable", salary |-> 0]

\* initializeData without a usable ?data=: the stored data, else the sample data
LoadSaved(stored) == IF stored # <<>> THEN stored[1] ELSE SampleData

\* the save effect: localStorage.setItem unless in read-only mode
SaveEffect(readOnly, data, stored) == IF ~readOnly THEN <<data>> ELSE stored

InitStore ==
    /\ rsuGrants = <<>>
    /\ vestingSchedule = <<2, 5, 8, 11>>
    /\ stockPrice \in StockPrices
    /\ now = [year |-> CurrentYear, month |-> 6]
    /\ stockData = MissingFile
    /\ SamplePay
    /\ vestedValues = NoResult
    /\ remainingValues = NoResult
    /\ projection = NoResult
    /\ CalcIdle /\ PriceIdle /\ AppIdle /\ GrantIdle /\ RestIdle
    /\ \E stored \in {<<>>} \cup {<<d>> : d \in OwnData},
          url \in {<<>>, <<Undecodable>>} \cup {<<d>> : d \in SharedData} :
            /\ isReadOnlyMode = (url # <<>>)
            /\ shownData = IF url # <<>> /\ url # <<Undecodable>> THEN url[1]
                           ELSE LoadSaved(stored)
            /\ savedData = SaveEffect(url # <<>>, LoadSaved(stored), stored)
            /\ session = [fromSharedUrl |-> url # <<>>, stored |-> stored]
    /\ shareUrl = <<>>

\* updateCompensationData(updates), and the save effect
UpdateCompensationData ==
    /\ \E salary \in Salaries \ {shownData.salary} :
            /\ shownData' = [shownData EXCEPT !.salary = salary]
            /\ savedData' = SaveEffect(isReadOnlyMode, shownData', savedData)
    /\ UNCHANGED <<isReadOnlyMode, shareUrl, session>>
    /\ UNCHANGED <<inputVars, payVars, vestVars, projection, projVars, priceVars, appVars>>
    /\ UNCHANGED <<grantVars, restVars>>

\* shareData(): the URL encodes the data shown
ShareData ==
    /\ shareUrl # <<shownData>>
    /\ shareUrl' = <<shownData>>
    /\ UNCHANGED <<isReadOnlyMode, shownData, savedData, session>>
    /\ UNCHANGED <<inputVars, payVars, vestVars, projection, projVars, priceVars, appVars>>
    /\ UNCHANGED <<grantVars, restVars>>

\* clearToDefault(), confirmed: the entry is removed, the sample data shown, read-only
\* mode left; the save effect then stores the sample data
ClearToDefault ==
    /\ isReadOnlyMode' = FALSE
    /\ shownData' = SampleData
    /\ savedData' = SaveEffect(FALSE, SampleData, <<>>)
    /\ savedData' # savedData \/ shownData' # shownData \/ isReadOnlyMode
    /\ UNCHANGED <<shareUrl, session>>
    /\ UNCHANGED <<inputVars, payVars, vestVars, projection, projVars, priceVars, appVars>>
    /\ UNCHANGED <<grantVars, restVars>>

\* Exit Shared Mode: the URL is cleared and the page reloaded, from local storage
ExitSharedMode ==
    /\ isReadOnlyMode
    /\ isReadOnlyMode' = FALSE
    /\ shownData' = LoadSaved(savedData)
    /\ savedData' = SaveEffect(FALSE, LoadSaved(savedData), savedData)
    /\ shareUrl' = <<>>
    /\ session' = [fromSharedUrl |-> FALSE, stored |-> savedData]
    /\ UNCHANGED <<inputVars, payVars, vestVars, projection, projVars, priceVars, appVars>>
    /\ UNCHANGED <<grantVars, restVars>>

NextStore == UpdateCompensationData \/ ShareData \/ ClearToDefault \/ ExitSharedMode

SpecStore == InitStore /\ [][NextStore]_vars

(***************************************************************************)
(* Claims about read-only mode (SpecStore).                                *)
(***************************************************************************)
\* C15: while the page opened from a shared URL is in use, whatever the user does
\* (edits, Reset, share), the viewer's entry 'compensation-data' in local storage is
\* neither written nor removed: it is what it was when the page was opened.
C15_ReadOnlyKeepsStoredData ==
    session.fromSharedUrl => savedData = session.stored

(***************************************************************************)
(* More claims about the recalculation effect (SpecApp).                   *)
(***************************************************************************)
\* C14: when the timer of a build that has not been superseded fires while the build
\* is still awaiting calculateProjections, the caller stops waiting and shows no
\* projection: loading is false and projections is empty, the projections of an
\* older input included.
C14_TimeoutShowsNoProjection ==
    \A b \in DOMAIN builds :
        (builds[b].timer = "fired" /\ ~builds[b].isCancelled /\ builds[b].pc = "calc") =>
            /\ loading = FALSE
            /\ projections = <<>>

(***************************************************************************)
(* SpecConfig: the editors of the salary configs (SalaryConfiguration) and *)
(* of the bonus configs (BonusConfiguration).  The user adds a config for  *)
(* a year or removes the config of a year; the list handed to onChange     *)
(* becomes compensationData.salaryConfigs (bonusConfigs) through           *)
(* updateCompensationData.                                                 *)
(***************************************************************************)
\* the years, amounts, percentages and multipliers the form is filled with; an amount
\* or a percentage of 0 is a field left empty
EditYears == {CurrentYear - 1, CurrentYear, CurrentYear + 1}
EditAmounts == {0, 100, 140}
EditPercentages == {0, 10}
EditMultipliers == {0, 5}

\* the filter left out: every config stays
WithoutYearKeepingAll(configs, year) == configs

\* configs.filter(c => c.year !== year)
WithoutYear(configs, year) == SelectSeq(configs, LAMBDA c : c.year # year)

\* one step of the stable sort by ascending year
RECURSIVE InsertAsc(_, _)
InsertAsc(sorted, c) ==
    IF sorted = <<>> THEN <<c>>
    ELSE IF Head(sorted).year <= c.year THEN <<Head(sorted)>> \o InsertAsc(Tail(sorted), c)
    ELSE <<c>> \o sorted

\* array.sort((a, b) => a.year - b.year), which is stable
RECURSIVE SortAsc(_)
SortAsc(configs) ==
    IF configs = <<>> THEN <<>>
    ELSE InsertAsc(SortAsc(SubSeq(configs, 1, Len(configs) - 1)), configs[Len(configs)])

\* [...filtered, config].sort((a, b) => a.year - b.year)
WithConfig(configs, config) == SortAsc(Append(WithoutYear(configs, config.year), config))

\* the config addSalaryConfig builds from the form
NewSalaryConfig(amount, year) ==
    [amount |-> amount, year |-> year, isHistorical |-> year < CurrentYear]

\* the config addBonusConfig builds from the form
NewBonusConfig(percentage, year, multiplier) ==
    [percentage |-> percentage, year |-> year,
     performanceMultiplier |-> OrElse(multiplier, 4), isHistorical |-> year < CurrentYear]

\* createSampleData(), and nothing handed to onChange yet; the configs of the sample
\* data count as added
InitConfig ==
    /\ rsuGrants = <<>>
    /\ vestingSchedule = <<2, 5, 8, 11>>
    /\ stockPrice \in StockPrices
    /\ now = [year |-> CurrentYear, month |-> 6]
    /\ stockData = MissingFile
    /\ SamplePay
    /\ vestedValues = NoResult
    /\ remainingValues = NoResult
    /\ projection = NoResult
    /\ CalcIdle /\ PriceIdle /\ AppIdle /\ GrantIdle /\ StoreIdle
    /\ SyncIdle /\ CallIdle
    /\ company = "Meta"
    /\ dataUpdate = NoResult
    /\ configEdits =
            [kind |-> "none", op |-> "none", year |-> 0, before |-> <<>>, after |-> <<>>,
             salaryAdded |-> [y \in EditYears |->
                                IF y = CurrentYear THEN <<SampleSalaryConfigs[1]>> ELSE <<>>],
             bonusAdded |-> [y \in EditYears |->
                                IF y = CurrentYear THEN <<SampleBonusConfigs[1]>> ELSE <<>>]]

\* addSalaryConfig, with the form holding (amount, year): nothing happens while a
\* field is empty
AddSalaryConfig ==
    /\ \E amount \in EditAmounts, year \in EditYears :
        IF Truthy(amount) /\ Truthy(year)
        THEN LET config == NewSalaryConfig(amount, year)
                 handed == WithConfig(salaryConfigs, config)
             IN /\ salaryConfigs' = handed
                /\ configEdits' = [configEdits EXCEPT
                        !.kind = "salary", !.op = "add", !.year = year,
                        !.before = salaryConfigs, !.after = handed,
                        !.salaryAdded[year] = <<config>>]
        ELSE UNCHANGED <<salaryConfigs, configEdits>>
    /\ UNCHANGED <<inputVars, bonusConfigs, baseSalary, baseCurrency, rsuCurrency>>
    /\ UNCHANGED <<vestVars, projection, projVars, priceVars, appVars, grantVars, storeVars>>
    /\ UNCHANGED <<company, dataUpdate, syncVars, callVars>>

\* removeSalaryConfig(year), of a year shown in the list
RemoveSalaryConfig ==
    /\ \E i \in DOMAIN salaryConfigs :
        LET year == salaryConfigs[i].year
            handed == WithoutYear(salaryConfigs, year)
        IN /\ salaryConfigs' = handed
           /\ configEdits' = [configEdits EXCEPT
                    !.kind = "salary", !.op = "remove", !.year = year,
                    !.before = salaryConfigs, !.after = handed,
                    !.salaryAdded[year] = <<>>]
    /\ UNCHANGED <<inputVars, bonusConfigs, baseSalary, baseCurrency, rsuCurrency>>
    /\ UNCHANGED <<vestVars, projection, projVars, priceVars, appVars, grantVars, storeVars>>
    /\ UNCHANGED <<company, dataUpdate, syncVars, callVars>>

\* addBonusConfig, with the form holding (percentage, year, performanceMultiplier)
AddBonusConfig ==
    /\ \E percentage \in EditPercentages, year \in EditYears, multiplier \in EditMultipliers :
        IF Truthy(percentage) /\ Truthy(year)
        THEN LET config == NewBonusConfig(percentage, year, multiplier)
                 handed == WithConfig(bonusConfigs, config)
             IN /\ bonusConfigs' = handed
                /\ configEdits' = [configEdits EXCEPT
                        !.kind = "bonus", !.op = "add", !.year = year,
                        !.before = bonusConfigs, !.after = handed,
                        !.bonusAdded[year] = <<config>>]
        ELSE UNCHANGED <<bonusConfigs, configEdits>>
    /\ UNCHANGED <<inputVars, salaryConfigs, baseSalary, baseCurrency, rsuCurrency>>
    /\ UNCHANGED <<vestVars, projection, projVars, priceVars, appVars, grantVars, storeVars>>
    /\ UNCHANGED <<company, dataUpdate, syncVars, callVars>>

\* removeBonusConfig(year), of a year shown in the list
RemoveBonusConfig ==
    /\ \E i \in DOMAIN bonusConfigs :
        LET year == bonusConfigs[i].year
            handed == WithoutYear(bonusConfigs, year)
        IN /\ bonusConfigs' = handed
           /\ configEdits' = [configEdits EXCEPT
                    !.kind = "bonus", !.op = "remove", !.year = year,
                    !.before = bonusConfigs, !.after = handed,
                    !.bonusAdded[year] = <<>>]
    /\ UNCHANGED <<inputVars, salaryConfigs, baseSalary, baseCurrency, rsuCurrency>>
    /\ UNCHANGED <<vestVars, projection, projVars, priceVars, appVars, grantVars, storeVars>>
    /\ UNCHANGED <<company, dataUpdate, syncVars, callVars>>

NextConfig == AddSalaryConfig \/ RemoveSalaryConfig \/ AddBonusConfig \/ RemoveBonusConfig

SpecConfig == InitConfig /\ [][NextConfig]_vars

(***************************************************************************)
(* Claims about the config editors (SpecConfig).                           *)
(***************************************************************************)
\* the configs of a year, in the order of the list
ConfigsOf(configs, year) == SelectSeq(configs, LAMBDA c : c.year = year)

\* the list holds, for every year, the config last added and not removed since, and
\* no other config
HoldsLastAdded(configs, added) ==
    /\ OnePerYear(configs)
    /\ \A y \in EditYears : ConfigsOf(configs, y) = added[y]
    /\ \A i \in DOMAIN configs : configs[i].year \in EditYears

LocalDataSet == [source : {"local"}, salary : {100, 140}, grants : {0, 1}]
\* what the document holds, less lastUpdated and userId
CloudDataSet == [source : {"cloud"}, salary : {100, 140}, grants : {0, 1}]

\* syncFromFirestore after getDoc settles: the data of the document, null (<<>>) when
\* there is none, and null when getDoc threw
SyncFromFirestore(document, readOk) == IF readOk THEN document ELSE <<>>

\* grant.grantDate.toISOString() on every grant: a TypeError for a grant date that is
\* a string
CanSerialise(data) == data.grants = 0

InitSync ==
    /\ rsuGrants = <<>>
    /\ vestingSchedule = <<2, 5, 8, 11>>
    /\ stockPrice \in StockPrices
    /\ now = [year |-> CurrentYear, month |-> 6]
    /\ stockData = MissingFile
    /\ SamplePay
    /\ vestedValues = NoResult
    /\ remainingValues = NoResult
    /\ projection = NoResult
    /\ CalcIdle /\ PriceIdle /\ AppIdle /\ GrantIdle /\ StoreIdle
    /\ EditIdle /\ CallIdle
    /\ tcCalculatorData \in {<<>>} \cup {<<data>> : data \in LocalDataSet}
    /\ userDoc \in {<<>>} \cup {<<data>> : data \in CloudDataSet}
    /\ merge = NoResult

\* mergeDataOnSignIn up to its first await: getLocalData(), then getDoc is sent
MergeDataOnSignIn ==
    /\ merge = NoResult
    /\ merge' = [pc |-> "reading", localData |-> tcCalculatorData, cloudData |-> <<>>,
                 documentAtRead |-> <<>>, documentAtWrite |-> <<>>, readFailed |-> FALSE,
                 wrote |-> FALSE, returned |-> <<>>]
    /\ UNCHANGED <<tcCalculatorData, userDoc>>
    /\ UNCHANGED <<inputVars, payVars, vestVars, projection, projVars, priceVars, appVars>>
    /\ UNCHANGED <<grantVars, storeVars, editVars, callVars>>

\* getDoc settles; then the two tests of mergeDataOnSignIn, up to setDoc being sent
GetDocSettles ==
    /\ merge # NoResult
    /\ merge.pc = "reading"
    /\ \E readOk \in BOOLEAN :
        LET cloudData == SyncFromFirestore(userDoc, readOk)
            read == [merge EXCEPT !.cloudData = cloudData, !.documentAtRead = userDoc,
                                  !.readFailed = ~readOk]
        IN merge' = IF merge.localData = <<>>
                    THEN [read EXCEPT !.pc = "returned", !.returned = cloudData]
                    ELSE IF cloudData = <<>>
                    THEN (IF CanSerialise(merge.localData[1])
                          THEN [read EXCEPT !.pc = "writing"]
                          ELSE [read EXCEPT !.pc = "rejected"])
                    ELSE [read EXCEPT !.pc = "returned", !.returned = cloudData]
    /\ UNCHANGED <<tcCalculatorData, userDoc>>
    /\ UNCHANGED <<inputVars, payVars, vestVars, projection, projVars, priceVars, appVars>>
    /\ UNCHANGED <<grantVars, storeVars, editVars, callVars>>

\* setDoc(userDocRef, firestoreData) settles: the document is replaced, or the write
\* fails and syncToFirestore rethrows
SetDocSettles ==
    /\ merge # NoResult
    /\ merge.pc = "writing"
    /\ \E writeOk \in BOOLEAN :
        IF writeOk
        THEN /\ userDoc' = <<[merge.localData[1] EXCEPT !.source = "cloud"]>>
             /\ merge' = [merge EXCEPT !.pc = "returned", !.returned = merge.localData,
                                       !.wrote = TRUE, !.documentAtWrite = userDoc]
        ELSE /\ userDoc' = userDoc
             /\ merge' = [merge EXCEPT !.pc = "rejected"]
    /\ UNCHANGED tcCalculatorData
    /\ UNCHANGED <<inputVars, payVars, vestVars, projection, projVars, priceVars, appVars>>
    /\ UNCHANGED <<grantVars, storeVars, editVars, callVars>>

\* another session of the user saves its data while this call is suspended
OtherSessionSaves ==
    /\ merge # NoResult
    /\ merge.pc \in {"reading", "writing"}
    /\ userDoc = <<>>
    /\ \E data \in CloudDataSet : userDoc' = <<data>>
    /\ UNCHANGED <<tcCalculatorData, merge>>
    /\ UNCHANGED <<inputVars, payVars, vestVars, projection, projVars, priceVars, appVars>>
    /\ UNCHANGED <<grantVars, storeVars, editVars, callVars>>

NextSync == MergeDataOnSignIn \/ GetDocSettles \/ SetDocSettles \/ OtherSessionSaves

SpecSync == InitSync /\ [][NextSync]_vars

(***************************************************************************)
(* Claims about the sign-in merge (SpecSync).                              *)
(***************************************************************************)
\* C24: mergeDataOnSignIn never overwrites cloud data: whenever a document exists for
\* the user it returns the cloud data and writes nothing to Firestore, whatever the
\* outcome of the read (a failed read included); local data is uploaded only when the
\* cloud holds no document.
C24_NeverOverwritesCloudData ==
    merge # NoResult =>
        /\ merge.wrote => (merge.documentAtRead = <<>> /\ merge.documentAtWrite = <<>>)
        /\ (merge.pc = "returned" /\ merge.documentAtRead # <<>>) =>
                (merge.returned = merge.documentAtRead /\ ~merge.wrote)

(***************************************************************************)
(* SpecAppLive: the recalculation effect with its timers running: a timer  *)
(* that is armed fires unless it is cleared first.  Nothing makes a        *)
(* pending promise settle: calculateProjections and getExchangeRate wait   *)
(* for the network.                                                        *)
(***************************************************************************)
SpecAppLive == SpecApp /\ WF_vars(Timeout)

\* C25: after the last input change loading eventually becomes false (and stays so),
\* whether the last-started build completes, fails or never completes, and however
\* many earlier builds were superseded while in flight.  The input changes finitely
\* often.
C25_LoadingEventuallyFalse == <>[](loading = FALSE)

(***************************************************************************)
(* SpecTable: ProjectionTable.  For the row of a year the table shows the  *)
(* rsuVest of the projection and, in a tooltip, the breakdown that         *)
(* getRSUVestingBreakdown computes by itself from the grants, the calendar *)
(* and the historical prices the component has loaded.  A tranche is       *)
(* [grantYear, projected, month, shares, price].                           *)
(***************************************************************************)
\* the least grant year: Math.min(...rsuGrants.map(g => getYear(g.grantDate)))
MinGrantYear(grants) ==
    CHOOSE y \in {GrantYear(grants[i]) : i \in DOMAIN grants} :
        \A i \in DOMAIN grants : y <= GrantYear(grants[i])

\* loadHistoricalPrices: the map from (year, month) to the price looked up, for the
\* past vesting months of the years a grant vests in; a price of 0 is not kept
LoadHistoricalPrices(grants, cal, file, clock) ==
    IF Len(grants) = 0 \/ Len(cal) = 0 THEN <<>>
    ELSE LET dateKeys ==
                {key \in (MinGrantYear(grants)..clock.year) \X Range(cal) :
                    /\ \E i \in DOMAIN grants :
                            key[1] - GrantYear(grants[i]) \in 0..(Len(grants[i].schedule) - 1)
                    /\ IsHistoricalVest(clock, key[1], key[2])}
         IN [key \in {k \in dateKeys : HistoricalPriceOf(file, k[1], k[2]) > 0} |->
                HistoricalPriceOf(file, key[1], key[2])]

\* historicalPrices.get(priceKey) || stockPrice, for a past vest; else stockPrice
BreakdownPrice(historicalPrices, currentStockPrice, clock, year, month) ==
    IF IsHistoricalVest(clock, year, month)
    THEN (IF <<year, month>> \in DOMAIN historicalPrices
          THEN OrElse(historicalPrices[<<year, month>>], currentStockPrice)
          ELSE currentStockPrice)
    ELSE currentStockPrice

\* rsuGrants.forEach(grant => ...) of getRSUVestingBreakdown: the tranches of one
\* existing grant in the year
ExistingBreakdown(grant, year, currentStockPrice, cal, historicalPrices, clock) ==
    LET yearsFromGrant == year - GrantYear(grant)
    IN IF ~(yearsFromGrant >= 0 /\ yearsFromGrant < Len(grant.schedule)) THEN <<>>
       ELSE IF grant.schedule[yearsFromGrant + 1] = 0 THEN <<>>
       ELSE LET kept == SelectSeq(cal,
                            LAMBDA month : ~(year = GrantYear(grant) /\ month < GrantMonth(grant)))
            IN [k \in DOMAIN kept |->
                    [grantYear |-> GrantYear(grant), projected |-> FALSE, month |-> kept[k],
                     shares |-> grant.totalShares * grant.schedule[yearsFromGrant + 1],
                     price |-> BreakdownPrice(historicalPrices, currentStockPrice, clock,
                                              year, kept[k])]]

RECURSIVE ExistingBreakdowns(_, _, _, _, _, _)
ExistingBreakdowns(grants, year, currentStockPrice, cal, historicalPrices, clock) ==
    IF grants = <<>> THEN <<>>
    ELSE ExistingBreakdown(Head(grants), year, currentStockPrice, cal, historicalPrices, clock)
         \o ExistingBreakdowns(Tail(grants), year, currentStockPrice, cal, historicalPrices,
                               clock)

\* the loop over futureGrantYear of getRSUVestingBreakdown: every month of the
\* calendar, at the current price
RECURSIVE ProjectedBreakdowns(_, _, _, _, _)
ProjectedBreakdowns(template, futureGrantYear, year, currentStockPrice, cal) ==
    IF futureGrantYear > year THEN <<>>
    ELSE LET yearsFromFutureGrant == year - futureGrantYear
             listed ==
                IF ~(yearsFromFutureGrant >= 0
                        /\ yearsFromFutureGrant < Len(template.schedule)) THEN <<>>
                ELSE IF template.schedule[yearsFromFutureGrant + 1] = 0 THEN <<>>
                ELSE [k \in DOMAIN cal |->
                        [grantYear |-> futureGrantYear, projected |-> TRUE, month |-> cal[k],
                         shares |-> template.totalShares
                                        * template.schedule[yearsFromFutureGrant + 1],
                         price |-> currentStockPrice]]
         IN listed \o ProjectedBreakdowns(template, futureGrantYear + 1, year,
                                          currentStockPrice, cal)

\* getRSUVestingBreakdown(year): the tranches its lines list, in order
GetRSUVestingBreakdown(grants, year, currentStockPrice, cal, historicalPrices, clock) ==
    IF Len(grants) = 0 THEN <<>>
    ELSE ExistingBreakdowns(grants, year, currentStockPrice, cal, historicalPrices, clock)
         \o (IF year > clock.year /\ Len(grants) > 0
             THEN ProjectedBreakdowns(MostRecentGrant(grants), clock.year + 1, year,
                                      currentStockPrice, cal)
             ELSE <<>>)

\* the tranches calculateRSUVestingForYear sums for the existing grants, in order
RECURSIVE ExistingVests(_, _, _, _, _, _)
ExistingVests(grants, year, currentStockPrice, cal, file, clock) ==
    IF grants = <<>> THEN <<>>
    ELSE LET vests == CalculateQuarterlyVestsForYear(Head(grants), year, cal)
         IN [k \in DOMAIN vests |->
                [grantYear |-> GrantYear(Head(grants)), projected |-> FALSE,
                 month |-> vests[k].month, shares |-> vests[k].shares,
                 price |-> VestPrice(file, currentStockPrice, clock, year, vests[k].month)]]
            \o ExistingVests(Tail(grants), year, currentStockPrice, cal, file, clock)

\* the tranches calculateRSUVestingForYear sums for the future grants, in order
RECURSIVE FutureVests(_, _, _, _, _)
FutureVests(template, futureGrantYear, year, currentStockPrice, cal) ==
    IF futureGrantYear > year THEN <<>>
    ELSE LET vests == CalculateQuarterlyVestsForYear(FutureGrant(template, futureGrantYear),
                                                     year, cal)
         IN [k \in DOMAIN vests |->
                [grantYear |-> futureGrantYear, projected |-> TRUE,
                 month |-> vests[k].month, shares |-> vests[k].shares,
                 price |-> currentStockPrice]]
            \o FutureVests(template, futureGrantYear + 1, year, currentStockPrice, cal)

\* the tranches calculateRSUVestingForYear sums into totalVesting, in order
SummedVests(grants, year, currentStockPrice, cal, file, clock) ==
    ExistingVests(grants, year, currentStockPrice, cal, file, clock)
    \o (IF Len(grants) > 0 /\ year > clock.year
        THEN FutureVests(MostRecentGrant(grants), FirstFutureGrantYear(clock), year,
                         currentStockPrice, cal)
        ELSE <<>>)

InitTable ==
    /\ rsuGrants \in BoundedSeq(ProjGrants, MaxGrants)
    /\ vestingSchedule \in {<<2, 5, 8, 11>>, <<3, 6, 9, 12>>}
    /\ stockPrice \in StockPrices
    /\ now = [year |-> CurrentYear, month |-> 6]
    /\ stockData \in StockFiles
    /\ SamplePay
    /\ vestedValues = NoResult
    /\ remainingValues = NoResult
    /\ projection = NoResult
    /\ CalcIdle /\ PriceIdle /\ AppIdle /\ GrantIdle /\ StoreIdle /\ RestIdle

\* the tooltip of the row of the projection: getRSUVestingBreakdown(projection.year),
\* the historical prices loaded; noted with the rsuVest the row shows
RenderBreakdown ==
    /\ projection # NoResult
    /\ breakdown' =
            [year |-> projection.year,
             rsuVest |-> projection.rsuVest,
             tranches |-> GetRSUVestingBreakdown(rsuGrants, projection.year, stockPrice,
                            vestingSchedule,
                            LoadHistoricalPrices(rsuGrants, vestingSchedule, stockData, now),
                            now)]
    /\ UNCHANGED <<inputVars, payVars, vestVars, projection, projVars, priceVars, appVars>>
    /\ UNCHANGED <<grantVars, storeVars, editVars, syncVars>>
    /\ UNCHANGED <<laterValue, rateCall, load>>

NextTable == ProjectYear \/ RenderBreakdown

SpecTable == InitTable /\ [][NextTable]_vars

(***************************************************************************)
(* Claims about the breakdown (SpecTable).                                 *)
(***************************************************************************)
\* C26: the breakdown ProjectionTable shows for a year agrees with the calculator: for
\* every grant set, calendar and year, the tranches getRSUVestingBreakdown lists
\* (existing and projected grants) are the tranches, with the same shares and prices,
\* that calculateRSUVestingForYear sums into rsuVest, those of a projected grant in
\* its own grant year included.
C26_BreakdownAgreesWithCalculator ==
    breakdown # NoResult =>
        /\ breakdown.tranches =
                SummedVests(rsuGrants, breakdown.year, stockPrice, vestingSchedule,
                            stockData, now)
        /\ SumSeq([k \in DOMAIN breakdown.tranches |->
                        breakdown.tranches[k].shares * breakdown.tranches[k].price])
                = breakdown.rsuVest

(***************************************************************************)
(* SpecMono: calculateVestedValue called twice for one grant, calendar,    *)
(* data file and clock: as of a (year, month), and as of a (year, month)   *)
(* that is not earlier.                                                    *)
(***************************************************************************)
\* (y1, m1) is not later than (y2, m2)
NotLater(y1, m1, y2, m2) == y1 < y2 \/ (y1 = y2 /\ m1 <= m2)

\* calculateVestedValue(grant, vestingSchedule, stockSymbol, currentStockPrice,
\* targetYear, targetMonth), as of a date not earlier than that of the first call
VestedValueLater ==
    /\ asOfValue # NoResult
    /\ laterValue = NoResult
    /\ \E targetYear \in AsOfYears, targetMonth \in AsOfMonths :
        /\ NotLater(asOfValue.targetYear, asOfValue.targetMonth, targetYear, targetMonth)
        /\ laterValue' = [targetYear |-> targetYear, targetMonth |-> targetMonth,
                          result |-> CalculateVestedValue(rsuGrants[1], vestingSchedule,
                                        stockData, stockPrice, now, targetYear, targetMonth)]
    /\ UNCHANGED <<inputVars, payVars, vestVars, projection, projVars, priceVars, appVars>>
    /\ UNCHANGED <<grantVars, storeVars, editVars, syncVars>>
    /\ UNCHANGED <<breakdown, rateCall, load>>

NextMono == VestedValueAsOf \/ VestedValueLater

SpecMono == InitGrant /\ [][NextMono]_vars

(***************************************************************************)
(* Claims about the two calls (SpecMono).                                  *)
(***************************************************************************)
\* C27: vesting is monotone: for one grant, calendar and prices >= 0, with schedule
\* percentages >= 0, if (y1, m1) is not later than (y2, m2) the vestedShares and the
\* totalVested of calculateVestedValue as of (y1, m1) are at most those as of (y2, m2);
\* and vestedShares never exceeds totalShares when the calendar has at most 4 months
\* and the schedule sums to at most 100.
C27_VestingMonotone ==
    /\ laterValue # NoResult =>
        /\ asOfValue.result.vestedShares <= laterValue.result.vestedShares
        /\ asOfValue.result.totalVested <= laterValue.result.totalVested
    /\ \A call \in {asOfValue, laterValue} \ {NoResult} :
        (Len(vestingSchedule) <= 4 /\ SumSeq(rsuGrants[1].schedule) <= 100) =>
            call.result.vestedShares <= rsuGrants[1].totalShares * ShareScale

\* the second call is as of an earlier month of a later year than the first, and more
\* has vested by then
C27_Witness ==
    /\ laterValue # NoResult
    /\ laterValue.targetYear > asOfValue.targetYear
    /\ laterValue.targetMonth < asOfValue.targetMonth
    /\ 0 < asOfValue.result.vestedShares
    /\ asOfValue.result.vestedShares < laterValue.result.vestedShares
    /\ asOfValue.result.totalVested < laterValue.result.totalVested

(***************************************************************************)
(* SpecRate: ExchangeRateService.getExchangeRate, called again and again   *)
(* for one currency or for the pair USD -> GBP.  The service is the record *)
(* rates: the rate of the cache entry (0 when there is none) and whether   *)
(* it is less than an hour old, the rate stored under                      *)
(* 'exchange-rate-USD-GBP' (0 when there is none), and what the rate API   *)
(* answers now.  A call suspends at axios.get.                             *)
(***************************************************************************)
\* the cache entry served whatever its age
ServedFromCacheWhateverAge(service) == service.cached # 0

\* cached && (Date.now() - cached.lastUpdated.getTime()) < this.cacheExpiry
ServedFromCache(service) == service.cached # 0 /\ service.fresh

\* the currency pairs asked for
CurrencyPairs == {<<"USD", "USD">>, <<"USD", "GBP">>}

\* the service with a cache entry or none, fresh or stale, and a stored rate or none:
\* local storage outlives the cache, and can be cleared by the user
InitRate ==
    /\ rsuGrants = <<>>
    /\ vestingSchedule = <<2, 5, 8, 11>>
    /\ stockPrice \in StockPrices
    /\ now = [year |-> CurrentYear, month |-> 6]
    /\ stockData = MissingFile
    /\ SamplePay
    /\ vestedValues = NoResult
    /\ remainingValues = NoResult
    /\ projection = NoResult
    /\ calc = NoCall
    /\ \E stored \in {0, 2}, cached \in {0, 2, 3}, fresh \in BOOLEAN, api \in ApiRates :
            /\ fresh => cached # 0
            /\ rates = [cached |-> cached, fresh |-> fresh, stored |-> stored, api |-> api]
    /\ PriceIdle /\ AppIdle /\ GrantIdle /\ StoreIdle
    /\ EditIdle /\ SyncIdle
    /\ breakdown = NoResult
    /\ laterValue = NoResult
    /\ load = NoResult
    /\ rateCall = NoResult

\* a call that has returned or thrown, or none yet
NoCallPending == IF rateCall = NoResult THEN TRUE ELSE rateCall.pc # "fetching"

\* getExchangeRate(from, to) up to axios.get
GetExchangeRate ==
    /\ NoCallPending
    /\ \E pair \in CurrencyPairs :
        LET call == [from |-> pair[1], to |-> pair[2], before |-> rates, atSettle |-> rates,
                     after |-> rates, fetched |-> FALSE, threw |-> FALSE, result |-> 0,
                     pc |-> "returned"]
        IN rateCall' = IF pair[1] = pair[2] THEN [call EXCEPT !.result = 1]
                       ELSE IF ServedFromCache(rates) THEN [call EXCEPT !.result = rates.cached]
                       ELSE [call EXCEPT !.pc = "fetching", !.fetched = TRUE]
    /\ UNCHANGED <<inputVars, payVars, vestVars, projection, projVars, priceVars, appVars>>
    /\ UNCHANGED <<grantVars, storeVars, editVars, syncVars>>
    /\ UNCHANGED <<breakdown, laterValue, load>>

\* axios.get settles: with a rate for `to`, which is cached and stored; or failing (no
\* answer, or no rate for `to`), and then the stored rate is returned, or the call throws
AxiosSettles ==
    /\ rateCall # NoResult
    /\ rateCall.pc = "fetching"
    /\ IF Truthy(rates.api)
       THEN /\ rates' = [rates EXCEPT !.cached = rates.api, !.fresh = TRUE,
                                      !.stored = rates.api]
            /\ rateCall' = [rateCall EXCEPT !.pc = "returned", !.result = rates.api,
                                            !.atSettle = rates, !.after = rates']
       ELSE /\ rates' = rates
            /\ rateCall' = IF rates.stored # 0
                           THEN [rateCall EXCEPT !.pc = "returned", !.result = rates.stored,
                                                 !.atSettle = rates, !.after = rates]
                           ELSE [rateCall EXCEPT !.pc = "threw", !.threw = TRUE,
                                                 !.atSettle = rates, !.after = rates]
    /\ UNCHANGED <<inputVars, payVars, vestVars, projection, calc, priceVars, appVars>>
    /\ UNCHANGED <<grantVars, storeVars, editVars, syncVars>>
    /\ UNCHANGED <<breakdown, laterValue, load>>

NextRate == GetExchangeRate \/ AxiosSettles \/ ApiChanges \/ CacheExpires

SpecRate == InitRate /\ [][NextRate]_vars

(***************************************************************************)
(* Claims about the exchange rate service (SpecRate).                      *)
(***************************************************************************)
\* the cache entry and the stored rate of the service
Kept(service) == <<service.cached, service.fresh, service.stored>>

\* C28: getExchangeRate(from, to) returns 1 without touching cache, network or storage
\* when from = to; returns the cached rate without a network call while the cache entry
\* is less than an hour old; on a successful fetch updates the cache and local storage;
\* on a failed fetch leaves the cache unchanged and returns the rate stored in local
\* storage if there is one, whatever its age, and throws only when there is none.
C28_GetExchangeRate ==
    (rateCall # NoResult /\ rateCall.pc # "fetching") =>
        LET call == rateCall
            before == call.before
            atSettle == call.atSettle
        IN /\ call.from = call.to =>
                /\ call.result = 1 /\ ~call.fetched /\ ~call.threw
                /\ Kept(call.after) = Kept(before)
           /\ (call.from # call.to /\ before.cached # 0 /\ before.fresh) =>
                /\ call.result = before.cached /\ ~call.fetched /\ ~call.threw
                /\ Kept(call.after) = Kept(before)
           /\ (call.from # call.to /\ ~(before.cached # 0 /\ before.fresh)) => call.fetched
           /\ (call.fetched /\ atSettle.api # 0) =>
                /\ call.result = atSettle.api /\ ~call.threw
                /\ call.after.cached = atSettle.api /\ call.after.fresh
                /\ call.after.stored = atSettle.api
           /\ (call.fetched /\ atSettle.api = 0) =>
                /\ Kept(call.after) = Kept(atSettle)
                /\ IF atSettle.stored # 0
                   THEN call.result = atSettle.stored /\ ~call.threw
                   ELSE call.threw
           /\ call.threw => (call.fetched /\ atSettle.api = 0 /\ atSettle.stored = 0)

\* a failed fetch with a stale cache entry of another rate than the stored one: the
\* stored rate is returned and the cache entry is as it was
C28_Witness ==
    /\ rateCall # NoResult
    /\ rateCall.pc = "returned"
    /\ rateCall.fetched
    /\ rateCall.atSettle.api = 0
    /\ rateCall.before.cached # 0
    /\ rateCall.before.cached # rateCall.atSettle.stored
    /\ rateCall.result = rateCall.atSettle.stored
    /\ rates.cached = rateCall.before.cached

(***************************************************************************)
(* SpecCache: the cache of StockPriceService under any sequence of         *)
(* loadStockData, getHistoricalPrice and clearCache.                       *)
(***************************************************************************)
\* loadStockData(symbol), called directly (by loadHistoricalPrices of ProjectionTable)
LoadStockDataCalled ==
    /\ \E symbol \in Symbols, fetched \in BOOLEAN :
        LET loaded == LoadStockData(symbol, fetched)
        IN /\ cache' = loaded.cache
           /\ load' = LoadCall(symbol, loaded)
    /\ UNCHANGED <<inputVars, payVars, vestVars, projection, projVars, appVars>>
    /\ UNCHANGED <<dataFiles, lookup, grantVars, storeVars, editVars, syncVars>>
    /\ UNCHANGED <<breakdown, laterValue, rateCall>>

NextCache == LoadStockDataCalled \/ GetHistoricalPrice \/ ClearCache

\* the service as constructed (an empty cache); the file of META is served, the file of
\* AAPL is missing or holds no series
InitCache ==
    /\ InitPrice
    /\ dataFiles["META"] = MonthlyFile
    /\ dataFiles["AAPL"] \in {MissingFile, MalformedFile}

SpecCache == InitCache /\ [][NextCache]_vars

(***************************************************************************)
(* Claims about the cache of the price service (SpecCache).                *)
(***************************************************************************)
\* C29: after any sequence of loadStockData, getHistoricalPrice and clearCache the cache
\* holds only data files that were fetched successfully; a cached symbol is served
\* without a new fetch; a failed or missing load is never cached, so that each later
\* lookup of the symbol fetches again; clearCache empties the cache.
C29_CacheHoldsFetchedFilesOnly ==
    /\ \A entry \in cache :
            /\ entry[1] \in Symbols
            /\ dataFiles[entry[1]].exists
            /\ entry[2] = dataFiles[entry[1]]
    /\ \A symbol \in Symbols : Cardinality({entry \in cache : entry[1] = symbol}) <= 1
    /\ load # NoResult =>
        /\ load.after = cache
        /\ load.op = "clearCache" => cache = {}
        /\ load.op = "loadStockData" =>
            /\ load.requested = ~load.wasCached
            /\ load.wasCached =>
                /\ load.after = load.before
                /\ <<load.symbol, load.data>> \in load.before
            /\ (load.requested /\ ~load.data.exists) =>
                /\ load.after = load.before
                /\ ~Cached(load.symbol)
            /\ (load.requested /\ load.data.exists) =>
                /\ load.data = dataFiles[load.symbol]
                /\ load.after = load.before \cup {<<load.symbol, load.data>>}

\* a failed load of a symbol whose file exists, with the other symbol cached: the
\* symbol is not cached and its next load will fetch
C29_Witness ==
    /\ load # NoResult
    /\ load.op = "loadStockData"
    /\ load.requested
    /\ ~load.data.exists
    /\ dataFiles[load.symbol].exists
    /\ ~Cached(load.symbol)
    /\ cache # {}

(***************************************************************************)
(* SpecCompany: updateCompensationData(updates) of App, with the updates   *)
(* its children hand it: the company chosen in CompanySelector, or one     *)
(* other field.  The data is the state compensationData, company included. *)
(***************************************************************************)
\* COMPANIES, without defaultVestingPattern
COMPANIES ==
    <<[name |-> "Meta", commonBonusPercentages |-> <<10, 15, 20, 25>>,
       defaultVestingSchedule |-> <<2, 5, 8, 11>>],
      [name |-> "Amazon", commonBonusPercentages |-> <<15, 20, 25, 30>>,
       defaultVestingSchedule |-> <<3, 6, 9, 12>>],
      [name |-> "Google", commonBonusPercentages |-> <<15, 20, 25>>,
       defaultVestingSchedule |-> <<3, 6, 9, 12>>],
      [name |-> "Apple", commonBonusPercentages |-> <<12, 18, 25>>,
       defaultVestingSchedule |-> <<3, 6, 9, 12>>],
      [name |-> "Netflix", commonBonusPercentages |-> <<10, 15, 20>>,
       defaultVestingSchedule |-> <<1, 4, 7, 10>>],
      [name |-> "Other", commonBonusPercentages |-> <<10, 15, 20, 25>>,
       defaultVestingSchedule |-> <<3, 6, 9, 12>>]>>

\* COMPANIES.find(c => c.name === name): <<>> when there is none
FindCompany(name) ==
    LET found == SelectSeq(COMPANIES, LAMBDA c : c.name = name)
    IN IF found = <<>> THEN <<>> ELSE <<found[1]>>

\* compensationData
CompensationData ==
    [company |-> company, salaryConfigs |-> salaryConfigs, bonusConfigs |-> bonusConfigs,
     baseCurrency |-> baseCurrency, rsuCurrency |-> rsuCurrency, rsuGrants |-> rsuGrants,
     stockPrice |-> stockPrice, vestingSchedule |-> vestingSchedule]

\* the field f of { ...prev, ...updates }
Spread(prev, updates, f) == IF f \in DOMAIN updates THEN updates[f] ELSE prev[f]

\* a default bonus config set at every change of company
DefaultBonusAlwaysSet(configs, currentYear) == TRUE

\* !prev.bonusConfigs.length || prev.bonusConfigs.every(bc => bc.year !== currentYear)
NoBonusConfigured(configs, currentYear) ==
    Len(configs) = 0 \/ \A i \in DOMAIN configs : configs[i].year # currentYear

\* commonBonusPercentages[0] || 15
DefaultBonusPercentage(companyInfo) ==
    IF Len(companyInfo.commonBonusPercentages) = 0 THEN 15
    ELSE OrElse(companyInfo.commonBonusPercentages[1], 15)

\* the callback of setCompensationData in updateCompensationData(updates)
UpdatedData(prev, updates, currentYear) ==
    LET newData ==
            [company |-> Spread(prev, updates, "company"),
             salaryConfigs |-> Spread(prev, updates, "salaryConfigs"),
             bonusConfigs |-> Spread(prev, updates, "bonusConfigs"),
             baseCurrency |-> Spread(prev, updates, "baseCurrency"),
             rsuCurrency |-> Spread(prev, updates, "rsuCurrency"),
             rsuGrants |-> Spread(prev, updates, "rsuGrants"),
             stockPrice |-> Spread(prev, updates, "stockPrice"),
             vestingSchedule |-> Spread(prev, updates, "vestingSchedule")]
        companyChanged ==
            IF "company" \in DOMAIN updates
            THEN updates.company # "" /\ updates.company # prev.company
            ELSE FALSE
    IN IF ~companyChanged THEN newData
       ELSE LET found == FindCompany(updates.company)
            IN IF found = <<>> THEN newData
               ELSE LET companyInfo == found[1]
                        scheduled == [newData EXCEPT
                                        !.vestingSchedule = companyInfo.defaultVestingSchedule]
                    IN IF NoBonusConfigured(prev.bonusConfigs, currentYear)
                       THEN [scheduled EXCEPT !.bonusConfigs =
                                WithoutYear(prev.bonusConfigs, currentYear)
                                \o <<[percentage |-> DefaultBonusPercentage(companyInfo),
                                      year |-> currentYear,
                                      performanceMultiplier |-> 4]>>]
                       ELSE scheduled

\* the company chosen in CompanySelector, one of COMPANIES
CompanyUpdates == {[company |-> COMPANIES[i].name] : i \in DOMAIN COMPANIES}

\* the lists of bonus configs BonusConfiguration hands over: none, one of last year,
\* one of this year and one of next year
BonusLists ==
    {<<>>,
     <<[percentage |-> 20, year |-> CurrentYear - 1, performanceMultiplier |-> 4]>>,
     <<[percentage |-> 20, year |-> CurrentYear, performanceMultiplier |-> 5],
       [percentage |-> 25, year |-> CurrentYear + 1, performanceMultiplier |-> 4]>>}

\* the updates of one other field
FieldUpdates ==
    {[vestingSchedule |-> <<6, 12>>], [baseCurrency |-> "USD"], [salaryConfigs |-> <<>>],
     [rsuGrants |-> <<Grant(CurrentYear - 1, 3, 15, 1000, <<25, 25, 25, 25>>)>>]}
    \cup {[bonusConfigs |-> configs] : configs \in BonusLists}

\* createSampleData()
InitCompany ==
    /\ rsuGrants = <<>>
    /\ vestingSchedule = <<2, 5, 8, 11>>
    /\ stockPrice \in StockPrices
    /\ now = [year |-> CurrentYear, month |-> 6]
    /\ stockData = MissingFile
    /\ SamplePay
    /\ vestedValues = NoResult
    /\ remainingValues = NoResult
    /\ projection = NoResult
    /\ CalcIdle /\ PriceIdle /\ AppIdle /\ GrantIdle /\ StoreIdle
    /\ EditIdle /\ SyncIdle /\ CallIdle

\* setCompensationData(prev => ...) with the updates handed over
SetCompensationData(updates) ==
    LET prev == CompensationData
        newData == UpdatedData(prev, updates, CurrentYear)
    IN /\ company' = newData.company
       /\ salaryConfigs' = newData.salaryConfigs
       /\ bonusConfigs' = newData.bonusConfigs
       /\ baseCurrency' = newData.baseCurrency
       /\ rsuCurrency' = newData.rsuCurrency
       /\ rsuGrants' = newData.rsuGrants
       /\ stockPrice' = newData.stockPrice
       /\ vestingSchedule' = newData.vestingSchedule
       /\ dataUpdate' = [prev |-> prev, updates |-> updates, next |-> newData]

\* CompanySelector: onChange={(company) => updateCompensationData({ company })}
CompanyChosen ==
    /\ \E updates \in CompanyUpdates : SetCompensationData(updates)
    /\ UNCHANGED <<now, stockData, baseSalary, configEdits>>
    /\ UNCHANGED <<vestVars, projection, projVars, priceVars, appVars>>
    /\ UNCHANGED <<grantVars, storeVars, syncVars, callVars>>

\* the other children: onChange={(x) => updateCompensationData({ x })}
FieldChanged ==
    /\ \E updates \in FieldUpdates : SetCompensationData(updates)
    /\ UNCHANGED <<now, stockData, baseSalary, configEdits>>
    /\ UNCHANGED <<vestVars, projection, projVars, priceVars, appVars>>
    /\ UNCHANGED <<grantVars, storeVars, syncVars, callVars>>

NextCompany == CompanyChosen \/ FieldChanged

SpecCompany == InitCompany /\ [][NextCompany]_vars

(***************************************************************************)
(* Claims about updateCompensationData (SpecCompany).                      *)
(***************************************************************************)
\* the fields of compensationData
DataFields ==
    {"company", "salaryConfigs", "bonusConfigs", "baseCurrency", "rsuCurrency",
     "rsuGrants", "stockPrice", "vestingSchedule"}

\* the default vesting schedule and the first common bonus percentage of the companies
\* listed, as the table of types/index.ts gives them
DefaultsOf(name) ==
    CASE name = "Meta" -> [schedule |-> <<2, 5, 8, 11>>, percentage |-> 10]
      [] name = "Amazon" -> [schedule |-> <<3, 6, 9, 12>>, percentage |-> 15]
      [] name = "Google" -> [schedule |-> <<3, 6, 9, 12>>, percentage |-> 15]
      [] name = "Apple" -> [schedule |-> <<3, 6, 9, 12>>, percentage |-> 12]
      [] name = "Netflix" -> [schedule |-> <<1, 4, 7, 10>>, percentage |-> 10]
      [] name = "Other" -> [schedule |-> <<3, 6, 9, 12>>, percentage |-> 10]

\* the configs of the year, and those of the other years, in order
OfYear(configs, year) == SelectSeq(configs, LAMBDA c : c.year = year)
OfOtherYears(configs, year) == SelectSeq(configs, LAMBDA c : c.year # year)

\* the last update changed the company
CompanyChanged ==
    /\ dataUpdate # NoResult
    /\ "company" \in DOMAIN dataUpdate.updates
    /\ dataUpdate.updates.company # dataUpdate.prev.company

\* C30: updateCompensationData on a change of company, to a company of COMPANIES other
\* than the one before, replaces vestingSchedule by the default of that company, leaves
\* a bonus config of the current year untouched when there is one and otherwise adds
\* exactly one config of the current year, with the first common percentage of the
\* company and multiplier 1.0, and leaves the bonus configs of other years, the salary
\* configs, grants, currencies and stock price unchanged; an update that does not
\* change the company changes only the fields supplied.
C30_CompanyChangeFrame ==
    dataUpdate # NoResult =>
        LET prev == dataUpdate.prev
            updates == dataUpdate.updates
            next == dataUpdate.next
        IN /\ next = CompensationData
           /\ CompanyChanged =>
                /\ next.company = updates.company
                /\ next.vestingSchedule = DefaultsOf(updates.company).schedule
                /\ OfYear(prev.bonusConfigs, CurrentYear) # <<>> =>
                        next.bonusConfigs = prev.bonusConfigs
                /\ OfYear(prev.bonusConfigs, CurrentYear) = <<>> =>
                        OfYear(next.bonusConfigs, CurrentYear) =
                            <<[percentage |-> DefaultsOf(updates.company).percentage,
                               year |-> CurrentYear, performanceMultiplier |-> 4]>>
                /\ OfOtherYears(next.bonusConfigs, CurrentYear) =
                        OfOtherYears(prev.bonusConfigs, CurrentYear)
                /\ \A f \in DataFields \ {"company", "vestingSchedule", "bonusConfigs"} :
                        next[f] = prev[f]
           /\ ~CompanyChanged =>
                \A f \in DataFields :
                    next[f] = IF f \in DOMAIN updates THEN updates[f] ELSE prev[f]

\* a change of company with a bonus config of last year only: the default of the
\* company is added after it, and the calendar is the company's
C30_Witness ==
    /\ CompanyChanged
    /\ dataUpdate.updates.company = "Apple"
    /\ dataUpdate.prev.vestingSchedule = <<6, 12>>
    /\ Len(dataUpdate.prev.bonusConfigs) = 1
    /\ dataUpdate.prev.bonusConfigs[1].year = CurrentYear - 1
    /\ Len(bonusConfigs) = 2
    /\ bonusConfigs[2].percentage = 12
    /\ vestingSchedule = <<3, 6, 9, 12>>
    /\ rsuGrants # <<>>

====
